---- MODULE Spec2Model ----
(***************************************************************************)
(* Model of the reactive engine of CFSY/meta-reactive: the dependency      *)
(* graph, the coordinated invalidate / recompute / dispatch pass and the   *)
(* collection store that feeds it.                                         *)
(*                                                                         *)
(* The repository carries the engine twice.  src/reactive is the engine    *)
(* whose writes start the pass at the written node; src/reactive_framework *)
(* is the engine whose collections notify their observers, each observer   *)
(* starting its own pass, and whose derived collections keep a compute     *)
(* cache.  The variable `variant` says which of the two a behaviour runs.  *)
(***************************************************************************)
EXTENDS Integers, Sequences, FiniteSets, TLC

\* ---------------------------------------------------------------- bounds
MaxWrites == 2

\* ------------------------------------------------------------- universes
NodeIds == {"R", "L", "A", "B", "C"}
Keys == {"a", "b"}
BaseValues == {1, 2}
Threads == {"t1", "t2"}
Variants == {"reactive", "framework"}

\* Bounds of the service: instance ids issued, streams opened, and the maxsize
\* of a bounded queue.
MaxInstances == 2
QueueSize == 1
InstanceIds == 1..MaxInstances
Queues == {"q1", "q2"}

\* Python's None, and the absence of a key; apart from the values, of which 0
\* is one.
NoValue == -1
NoInstance == 0
NoQueue == "none"
NoThread == "none"
NoFunc == "None"
NeverComputed == 0

VARIABLES
  variant,                          \* which engine the process runs
  nodes,                            \* ComputeGraph._nodes (the registered ids)
  dependencies,                     \* DependencyNode.dependencies, per node
  dependents,                       \* DependencyNode.dependents, per node
  invalidated,                      \* DependencyNode.invalidated, per node
  last_computed,                    \* DependencyNode.last_computed, per node
  compute_func,                     \* ComputedCollection._compute_func, per node
  change_callbacks,                 \* Collection._change_callbacks, per collection
  graph_call,                       \* history: the last call that changed the graph
  map_result,                       \* the object the last map() call returned, per name
  data,                             \* Collection._data, per collection
  key_order,                        \* the order of the keys in each _data dict
  last_modified,                    \* Collection._last_modified, per collection
  cache,                            \* Collection._cache, per collection
  cache_fresh,                      \* less than _cache_timeout since import
  computation_in_progress,          \* ComputeGraph._computation_in_progress
  coordinated_update_in_progress,   \* ComputeGraph._coordinated_update_in_progress
  graph_lock,                       \* owner of ComputeGraph._lock
  coll_lock,                        \* owner of Collection._lock, per collection
  pc,                               \* position of each writer thread
  frame,                            \* locals of the write / pass each thread runs
  cb_log,                           \* change callback invocations, in order
  nwrites,                          \* number of external writes started
  instances,                        \* ResourceManager._instances
  instances_by_params,              \* ResourceManager._instances_by_params
  collections,                      \* ResourceManager._collections
  subscribers,                      \* ResourceManager._subscribers
  uuid,                             \* number of instance ids uuid4 has issued
  destroyed,                        \* history: the instances destroy_instance removed
  on_change,                        \* instance ids keying a node's change_callbacks
  queue,                            \* the asyncio.Queue of each stream
  putters,                          \* coroutines waiting in a queue's put()
  ready,                            \* the event loop's ready queue
  dispatched,                       \* history: updates on_change built, per instance
  response                          \* history: the last create_stream response

vars == <<variant, nodes, dependencies, dependents, invalidated, compute_func,
          change_callbacks, graph_call, map_result,
          data, last_modified, cache, cache_fresh, computation_in_progress, coordinated_update_in_progress,
          graph_lock, coll_lock, pc, frame, cb_log, nwrites, last_computed,
          key_order,
          instances, instances_by_params, collections, subscribers, uuid,
          destroyed, on_change, queue, putters, ready, dispatched, response>>

manager_vars == <<instances, instances_by_params, collections, subscribers,
                  uuid, destroyed, on_change>>

stream_vars == <<queue, putters, ready, dispatched, response>>

service_vars == <<manager_vars, stream_vars>>

graph_vars == <<variant, nodes, dependencies, dependents, compute_func,
                change_callbacks, graph_call, map_result>>

cache_vars == <<last_modified, cache, cache_fresh>>

\* ---------------------------------------------------------------- helpers
Range(s) == {s[i] : i \in 1..Len(s)}

Orders(S) == {s \in [1..Cardinality(S) -> S] :
                \A i, j \in 1..Cardinality(S) : i # j => s[i] # s[j]}

IndexOf(s, x) == CHOOSE i \in 1..Len(s) : s[i] = x

EmptyData == [k \in Keys |-> NoValue]

KeysOf(d) == {k \in Keys : d[k] # NoValue}

Change(key, old_value, new_value) ==
  [key |-> key, old_value |-> old_value, new_value |-> new_value]

\* The key order of a dict after "d[key] = value" (a new key goes last, a key
\* the dict holds keeps its place) and after "del d[key]" / "d.pop(key, None)";
\* NoValue as the value stands for the removal.
KeyOrder(ks, key, value) ==
  IF value = NoValue THEN SelectSeq(ks, LAMBDA k : k # key)
  ELSE IF key \in Range(ks) THEN ks
  ELSE Append(ks, key)

\* The key order after the changes were applied to the dict one by one.
RECURSIVE KeyOrderAfter(_, _, _)
KeyOrderAfter(changes, i, ks) ==
  IF i > Len(changes) THEN ks
  ELSE KeyOrderAfter(changes, i + 1,
                     KeyOrder(ks, changes[i].key, changes[i].new_value))

\* ------------------------------------------------------- graphs under test
\* Each graph is what a sequence of ComputedCollection(name, graph) and
\* source.map(Mapper, *args) calls leaves in the ComputeGraph: map() adds the
\* edge to the source first and then one edge per collection among the args.
\* change_callbacks names, per collection, the base collection its registered
\* callback writes to (NoFunc: the callback only records the change).
NoDeps == [n \in NodeIds |-> <<>>]
NoFuncs == [n \in NodeIds |-> NoFunc]

\* A = R.map(Inc); B = A.map(OddOnly)
ChainGraph ==
  [nodes |-> {"R", "A", "B"},
   dependencies |-> [NoDeps EXCEPT !["A"] = <<"R">>, !["B"] = <<"A">>],
   dependents |-> [NoDeps EXCEPT !["R"] = <<"A">>, !["A"] = <<"B">>],
   compute_func |-> [NoFuncs EXCEPT !["A"] = "Inc", !["B"] = "OddOnly"],
   change_callbacks |-> NoFuncs]

\* A = R.map(Inc); B = R.map(Double); C = A.map(PlusArg, B)
DiamondGraph ==
  [nodes |-> {"R", "L", "A", "B", "C"},
   dependencies |-> [NoDeps EXCEPT !["A"] = <<"R">>, !["B"] = <<"R">>,
                                   !["C"] = <<"A", "B">>],
   dependents |-> [NoDeps EXCEPT !["R"] = <<"A", "B">>, !["A"] = <<"C">>,
                                 !["B"] = <<"C">>],
   compute_func |-> [NoFuncs EXCEPT !["A"] = "Inc", !["B"] = "Double",
                                    !["C"] = "PlusArg"],
   change_callbacks |-> NoFuncs]

\* A = R.map(Inc); B = L.map(Double); C = A.map(PlusArg, B)
JoinGraph ==
  [nodes |-> {"R", "L", "A", "B", "C"},
   dependencies |-> [NoDeps EXCEPT !["A"] = <<"R">>, !["B"] = <<"L">>,
                                   !["C"] = <<"A", "B">>],
   dependents |-> [NoDeps EXCEPT !["R"] = <<"A">>, !["L"] = <<"B">>,
                                 !["A"] = <<"C">>, !["B"] = <<"C">>],
   compute_func |-> [NoFuncs EXCEPT !["A"] = "Inc", !["B"] = "Double",
                                    !["C"] = "PlusArg"],
   change_callbacks |-> NoFuncs]

\* A = R.map(Forward, L); B = L.map(Inc).  Forward's map_element stores each
\* element it maps in the collection it was constructed with, and yields it.
WriterGraph ==
  [nodes |-> {"R", "L", "A", "B"},
   dependencies |-> [NoDeps EXCEPT !["A"] = <<"R", "L">>, !["B"] = <<"L">>],
   dependents |-> [NoDeps EXCEPT !["R"] = <<"A">>, !["L"] = <<"A", "B">>],
   compute_func |-> [NoFuncs EXCEPT !["A"] = "Forward", !["B"] = "Inc"],
   change_callbacks |-> NoFuncs]

\* A = R.map(Inc); B = L.map(Inc); A.add_change_callback(store), where
\* store(change) calls L.set(change.key, change.new_value) unless the new
\* value is None.
CallbackGraph ==
  [nodes |-> {"R", "L", "A", "B"},
   dependencies |-> [NoDeps EXCEPT !["A"] = <<"R">>, !["B"] = <<"L">>],
   dependents |-> [NoDeps EXCEPT !["R"] = <<"A">>, !["L"] = <<"B">>],
   compute_func |-> [NoFuncs EXCEPT !["A"] = "Inc", !["B"] = "Inc"],
   change_callbacks |-> [NoFuncs EXCEPT !["A"] = "L"]]

\* A = R.map(Dec); B = A.map(OddOnly): writing 1 to R gives A the value 0.
ZeroGraph ==
  [nodes |-> {"R", "A", "B"},
   dependencies |-> [NoDeps EXCEPT !["A"] = <<"R">>, !["B"] = <<"A">>],
   dependents |-> [NoDeps EXCEPT !["R"] = <<"A">>, !["A"] = <<"B">>],
   compute_func |-> [NoFuncs EXCEPT !["A"] = "Dec", !["B"] = "OddOnly"],
   change_callbacks |-> NoFuncs]

Graphs == {ChainGraph, DiamondGraph, JoinGraph, WriterGraph, CallbackGraph}

BaseNodes == {n \in nodes : compute_func[n] = NoFunc}
DerivedNodes == {n \in nodes : compute_func[n] # NoFunc}

\* ----------------------------------------------------------------- mappers
\* OneToOneMapper.map_value of the mappers the graphs use; NoValue is the
\* None that map_element filters out.  arg is the value the mapper reads from
\* the collection it was constructed with (key "a"), NoValue when absent.
MapValue(func, value, arg) ==
  CASE func = "Inc" -> value + 1
    [] func = "Dec" -> value - 1
    [] func = "Inc2" -> 2 * (value + 1)
    [] func = "Double" -> 2 * value
    [] func = "OddOnly" -> IF value % 2 = 1 THEN value ELSE NoValue
    [] func = "PlusArg" -> IF arg = NoValue THEN NoValue ELSE value + arg
    [] func = "Forward" -> value
    [] OTHER -> NoValue

\* OneToOneMapper.map_element: yields (key, result) unless result is None.
MapElement(func, value, arg) ==
  IF value = NoValue THEN NoValue ELSE MapValue(func, value, arg)

\* The compute function map() installs: fold the mapper over the source's
\* items.  The source is the first dependency, the argument collection (if
\* any) the second.
ComputeFunc(node_id, d) ==
  LET deps == dependencies[node_id]
      source == d[deps[1]]
      arg == IF Len(deps) > 1 THEN d[deps[2]]["a"] ELSE NoValue
  IN [k \in Keys |-> MapElement(compute_func[node_id], source[k], arg)]

\* The writes the compute function makes while it runs: Forward stores every
\* item of the source in its argument collection; order is the order in which
\* it meets the source's items, that of the source's dict.
FuncWrites(node_id, d, order) ==
  IF compute_func[node_id] = "Forward"
  THEN LET deps == dependencies[node_id]
           ks == SelectSeq(order, LAMBDA k : d[deps[1]][k] # NoValue)
       IN [i \in 1..Len(ks) |->
             [coll |-> deps[2], key |-> ks[i], value |-> d[deps[1]][ks[i]]]]
  ELSE <<>>

\* ------------------------------------------------------------ invalidation
RECURSIVE InvalidateRecursive(_, _), InvalidateDependents(_, _, _)

\* ComputeGraph.invalidate_node's helper: st.flags are the invalidated flags,
\* st.invalidated the set being collected.
\* Mutant: a node whose flag is up is marked and walked again.
InvalidateAgain(node_id, st) ==
  InvalidateDependents(dependents[node_id], 1,
    [flags |-> [st.flags EXCEPT ![node_id] = TRUE],
     invalidated |-> st.invalidated \cup {node_id}])

InvalidateRecursive(node_id, st) ==
  IF ~st.flags[node_id]
  THEN InvalidateDependents(dependents[node_id], 1,
         [flags |-> [st.flags EXCEPT ![node_id] = TRUE],
          invalidated |-> st.invalidated \cup {node_id}])
  ELSE st

\* Mutant: invalidation stops at the node it is called on.
InvalidateNoDependents(ds, i, st) == st

InvalidateDependents(ds, i, st) ==
  IF i > Len(ds) THEN st
  ELSE InvalidateDependents(ds, i + 1, InvalidateRecursive(ds[i], st))

InvalidateNode(node_id, flags) ==
  InvalidateRecursive(node_id, [flags |-> flags, invalidated |-> {}])

\* -------------------------------------------------------- topological sort
RECURSIVE Visit(_, _), VisitDependencies(_, _, _), VisitAll(_, _, _)

\* Mutant: a node is put on the result before its dependencies are visited.
VisitPreorder(node_id, st) ==
  IF node_id \in st.temp_mark THEN st
  ELSE IF node_id \notin st.visited /\ node_id \in nodes
  THEN LET s1 == VisitDependencies(dependencies[node_id], 1,
                   [st EXCEPT !.temp_mark = @ \cup {node_id},
                              !.result = Append(@, node_id)])
       IN [s1 EXCEPT !.visited = @ \cup {node_id},
                     !.temp_mark = @ \ {node_id}]
  ELSE st

Visit(node_id, st) ==
  IF node_id \in st.temp_mark THEN st
  ELSE IF node_id \notin st.visited /\ node_id \in nodes
  THEN LET s1 == VisitDependencies(dependencies[node_id], 1,
                   [st EXCEPT !.temp_mark = @ \cup {node_id}])
       IN [result |-> Append(s1.result, node_id),
           visited |-> s1.visited \cup {node_id},
           temp_mark |-> s1.temp_mark \ {node_id}]
  ELSE st

VisitDependencies(deps, i, st) ==
  IF i > Len(deps) THEN st
  ELSE VisitDependencies(deps, i + 1, Visit(deps[i], st))

VisitAll(order, i, st) ==
  IF i > Len(order) THEN st
  ELSE VisitAll(order, i + 1,
         IF order[i] \notin st.visited THEN Visit(order[i], st) ELSE st)

\* ComputeGraph._topological_sort; order is the order in which Python
\* iterates the set node_ids.
TopologicalSort(order) ==
  VisitAll(order, 1, [result |-> <<>>, visited |-> {}, temp_mark |-> {}]).result

\* -------------------------------------------------------------- the diff
\* ComputedCollection.compute: the changes of old against new_data, the
\* deletions first; order is the order in which Python iterates the key sets.
Deletions(old, new_data, order) ==
  LET ks == SelectSeq(order, LAMBDA k : k \in KeysOf(old) \ KeysOf(new_data))
  IN [i \in 1..Len(ks) |-> Change(ks[i], old[ks[i]], NoValue)]

\* Mutant: a change is emitted for every key of new_data, equal value or not.
UpdatesAlways(old, new_data, order) ==
  LET ks == SelectSeq(order, LAMBDA k : k \in KeysOf(new_data))
  IN [i \in 1..Len(ks) |-> Change(ks[i], old[ks[i]], new_data[ks[i]])]

Updates(old, new_data, order) ==
  LET ks == SelectSeq(order, LAMBDA k : k \in KeysOf(new_data)
                                         /\ old[k] # new_data[k])
  IN [i \in 1..Len(ks) |-> Change(ks[i], old[ks[i]], new_data[ks[i]])]

DiffChanges(old, new_data, order) ==
  Deletions(old, new_data, order) \o Updates(old, new_data, order)

\* The contents compute() leaves in self._data: the deleted keys removed and
\* the keys whose value differs overwritten.
DiffApply(old, new_data) ==
  [k \in Keys |->
     IF k \in KeysOf(old) \ KeysOf(new_data) THEN NoValue
     ELSE IF k \in KeysOf(new_data) /\ old[k] # new_data[k] THEN new_data[k]
     ELSE old[k]]

\* ------------------------------------------------------------ the streams
\* SSEMessage(event, data); n numbers the updates built for one instance (0 on
\* the other events) and is carried to tell the updates apart.
SSEMessage(event, payload, n) == [event |-> event, data |-> payload, n |-> n]

\* list(collection.iter_items()): the (key, value) pairs the collection holds.
Items(d) == {<<k, d[k]>> : k \in KeysOf(d)}

\* The snapshot subscribe() sends.
\* Mutant: the snapshot is empty.
EmptySnapshot(d) == SSEMessage("init", {}, 0)

InitMessage(d) == SSEMessage("init", Items(d), 0)

\* The truth value Python gives a value in a condition: None and 0 are false.
Truthy(value) == value \notin {NoValue, 0}

\* on_change: [[change.key, [change.new_value] if change.new_value else []]].
UpdateData(change) ==
  <<change.key,
    IF Truthy(change.new_value) THEN <<change.new_value>> ELSE <<>>>>

\* destroy_instance's terminal message.
CloseMessage == SSEMessage("close", "Resource instance destroyed", 0)

\* A queue object: not yet created ("none"), referenced by its stream
\* ("alive"), reclaimed with its weak reference cleared ("cleared"), and
\* reclaimed with the weak reference's callback run ("dead").  put is all that
\* was ever enqueued, got the number of messages the stream has taken;
\* instance and since record the subscription.
NoStream ==
  [state |-> "none", maxsize |-> 0, put |-> <<>>, got |-> 0,
   instance |-> NoInstance, since |-> 0]

\* asyncio.Queue.qsize() and full(): maxsize 0 is unbounded.
QSize(qr) == Len(qr.put) - qr.got

Full(qr) == qr.maxsize > 0 /\ QSize(qr) >= qr.maxsize

\* A coroutine running _notify_subscribers: for a notification task
\* ("notify") or inside destroy_instance ("destroy").  pos is "start" before
\* its first statement and "loop" inside the for loop; todo are the references
\* the loop has still to visit, size the size of the set when the loop began.
Coroutine(kind, instance_id, message) ==
  [kind |-> kind, instance_id |-> instance_id, message |-> message,
   pos |-> "start", todo |-> <<>>, dead_refs |-> {}, size |-> 0]

\* create_stream's response; NoResponse before the first call.
NoResponse ==
  [params |-> <<>>, existing |-> NoInstance, instance_id |-> NoInstance,
   reused |-> FALSE]

\* The tasks the on_change callbacks of a node create when the dispatch loop
\* hands them the changes: for every change in turn, one task per callback in
\* the order of the change_callbacks dict.
OnChangeTasks(node_id, changes) ==
  LET ids == on_change[node_id]
      K == Len(ids)
  IN [p \in 1..(Len(changes) * K) |->
        LET j == ((p - 1) \div K) + 1
            i == ids[((p - 1) % K) + 1]
        IN Coroutine("notify", i,
             SSEMessage("update", UpdateData(changes[j]),
                        Len(dispatched[i]) + j))]

\* --------------------------------------------------------------- the state
\* graph_call before any building call has changed the graph.
NoCall == "none"

\* No map() call has returned a collection of this name.  A returned object
\* is either the one add_node registered, whose _data is data[name], or one
\* constructed under a name the graph already had, which carries its own
\* _data.
NoObject == [returned |-> FALSE, registered |-> FALSE, data |-> EmptyData]

IdleFrame ==
  [wid |-> 0, coll |-> "R", change |-> Change("a", NoValue, NoValue),
   targets |-> <<>>, tidx |-> 1, start |-> "R",
   invalidated_nodes |-> {}, sorted_nodes |-> <<>>, idx |-> 1,
   all_changes |-> <<>>, didx |-> 1, computed |-> <<>>, invoked |-> <<>>,
   nested |-> <<>>, clean |-> TRUE]

InitGraph(g) ==
  /\ nodes = g.nodes
  /\ dependencies = g.dependencies
  /\ dependents = g.dependents
  /\ compute_func = g.compute_func
  /\ change_callbacks = g.change_callbacks
  /\ graph_call = NoCall

InitEngine ==
  /\ map_result = [n \in NodeIds |-> NoObject]
  /\ invalidated = [n \in NodeIds |-> FALSE]
  /\ key_order = [n \in NodeIds |-> <<>>]
  /\ last_computed = [n \in NodeIds |-> NeverComputed]
  /\ data = [n \in NodeIds |-> EmptyData]
  /\ last_modified = [n \in NodeIds |-> 0]
  /\ cache = [n \in NodeIds |-> {}]
  /\ cache_fresh = TRUE
  /\ computation_in_progress = {}
  /\ coordinated_update_in_progress = FALSE
  /\ graph_lock = NoThread
  /\ coll_lock = [n \in NodeIds |-> NoThread]
  /\ pc = [t \in Threads |-> "idle"]
  /\ frame = [t \in Threads |-> IdleFrame]
  /\ cb_log = <<>>
  /\ nwrites = 0

\* No stream is open, nothing is scheduled.
InitStreams ==
  /\ queue = [q \in Queues |-> NoStream]
  /\ putters = [q \in Queues |-> <<>>]
  /\ ready = <<>>
  /\ dispatched = [i \in InstanceIds |-> <<>>]
  /\ on_change = [n \in NodeIds |-> <<>>]

\* ResourceManager.__init__; no response was given.
InitManager ==
  /\ instances = <<>>
  /\ instances_by_params = <<>>
  /\ collections = <<>>
  /\ subscribers = <<>>
  /\ uuid = 0
  /\ destroyed = {}
  /\ response = NoResponse

InitState == InitEngine /\ InitManager /\ InitStreams

Init ==
  /\ variant \in Variants
  /\ \E g \in Graphs : InitGraph(g)
  /\ InitState

\* A threading.RLock is free for its owner.
CanAcquire(owner, t) == owner \in {NoThread, t}

\* ------------------------------------------------------ the collection store
\* self._last_modified = datetime.now(): an instant later than the one stored.
\* Only src/reactive_framework reads it (for the cache key), and only for
\* equality, so the instants of one collection are counted.
Tick(instant) == IF variant = "framework" THEN instant + 1 ELSE instant

\* ComputedCollection.handle_change (src/reactive): the node at which the
\* collection starts the pass, its own.
HandleChange(c) == c

\* set of src/reactive hands the change to the engine: the written
\* collection's handle_change is called, once.
HandOver(c) == <<HandleChange(c)>>

\* The collections a write starts a pass at, in order.  src/reactive_framework:
\* _notify_observers walks a copy of the observer list, which add_dependency
\* keeps equal to the node's dependents, and calls each one's _handle_change.
NotifyTargets(c) ==
  IF variant = "reactive" THEN HandOver(c) ELSE dependents[c]

\* What the callbacks of a collection record: the write, the pass (its
\* starting node; "own" for the written collection's own callbacks), the
\* collection and the change.
LogEntries(wid, start, node_id, changes) ==
  [i \in 1..Len(changes) |->
     [wid |-> wid, start |-> start, node |-> node_id, change |-> changes[i]]]

\* The changes the written collection's own callbacks receive at the end of
\* the write: none in src/reactive (only the pass calls notify_callbacks), the
\* write's change in src/reactive_framework (_notify_observers, second loop).
OwnCallbackChanges(change) ==
  IF variant = "reactive" THEN <<>> ELSE <<change>>

\* Collection.set / Collection.delete up to the hand-over of the change:
\* take the collection's lock, store the value, build the Change.  The
\* threads are interchangeable, so of two idle threads it is the first that
\* is taken to make the call.
StartWrite(t, c, key, new_value) ==
  /\ pc[t] = "idle"
  /\ t = "t1" \/ pc["t1"] # "idle"
  /\ nwrites < MaxWrites
  /\ c \in BaseNodes
  /\ CanAcquire(coll_lock[c], t)
  /\ coll_lock' = [coll_lock EXCEPT ![c] = t]
  /\ data' = [data EXCEPT ![c][key] = new_value]
  /\ key_order' = [key_order EXCEPT ![c] = KeyOrder(@, key, new_value)]
  /\ last_modified' = [last_modified EXCEPT ![c] = Tick(@)]
  /\ nwrites' = nwrites + 1
  /\ frame' = [frame EXCEPT ![t] =
       [IdleFrame EXCEPT !.wid = nwrites + 1, !.coll = c,
                         !.change = Change(key, data[c][key], new_value),
                         !.targets = NotifyTargets(c)]]
  /\ pc' = [pc EXCEPT ![t] = "notify_observers"]
  /\ cb_log' = IF \A u \in Threads : pc[u] = "idle" THEN <<>> ELSE cb_log
  /\ UNCHANGED <<last_computed, graph_vars, service_vars, cache, cache_fresh, invalidated,
                 computation_in_progress, coordinated_update_in_progress,
                 graph_lock>>

Set(t, c, key, value) == StartWrite(t, c, key, value)

Delete(t, c, key) == StartWrite(t, c, key, NoValue)

\* ----------------------------------------------------- the compute step
\* What one call of a node's compute() works on and leaves behind: the
\* collections' contents and modification instants, the invalidated flags, the
\* compute caches, the coordinated-update flag, the callback records it
\* appended (log) and the nodes whose compute function a pass started from
\* inside it has invoked (nested).
Store ==
  [data |-> data, last_modified |-> last_modified, invalidated |-> invalidated,
   last_computed |-> last_computed, key_order |-> key_order,
   cache |-> cache, flag |-> coordinated_update_in_progress,
   log |-> <<>>, nested |-> <<>>]

\* node.last_computed = datetime.now(): an instant later than every one
\* stored.  Nothing reads the instants, and the properties only compare them,
\* so each node's instant is kept as its rank among the instants stored.
Stamp(instants, node_id) ==
  LET others == {instants[n] : n \in NodeIds \ {node_id}} \ {NeverComputed}
      rank(i) == Cardinality({j \in others : j <= i})
  IN [n \in NodeIds |->
        IF n = node_id THEN Cardinality(others) + 1
        ELSE IF instants[n] = NeverComputed THEN NeverComputed
        ELSE rank(instants[n])]

\* recompute_invalidated, "Avoid nested coordinated updates": the call returns
\* at once when a pass is in progress.
\* Mutant: the call never returns early.
NeverSuppressed(flag) == FALSE

RecomputeSuppressed(flag) == flag

\* _compute_single_node(node_id, suppress_notifications=True) in
\* src/reactive_framework; src/reactive's compute() always returns its changes.
\* Mutant: the pass computes its nodes in standalone mode.
StandaloneNotifications == FALSE

SuppressNotifications == TRUE

\* ComputedCollection._generate_cache_key: the dependencies with their
\* modification instants, in dependency order.
GenerateCacheKey(node_id, instants) ==
  [i \in 1..Len(dependencies[node_id]) |->
     <<dependencies[node_id][i], instants[dependencies[node_id][i]]>>]

\* Collection.get_cached_result / set_cached_result: a dict keyed by cache key.
HasCachedResult(c, key) == \E e \in c : e.cache_key = key

GetCachedResult(c, key) == CHOOSE e \in c : e.cache_key = key

SetCachedResult(c, key, changes, seen) ==
  {e \in c : e.cache_key # key}
  \cup {[cache_key |-> key, changes |-> changes, seen |-> seen]}

\* History: the contents the dependencies of node_id had when its compute
\* function returned, told with the result that is stored.
Seen(node_id, d) ==
  [n \in NodeIds |->
     IF n \in Range(dependencies[node_id]) THEN d[n] ELSE EmptyData]

\* The cached branch of _compute: the stored changes are replayed on _data.
RECURSIVE ReplayChanges(_, _, _)
ReplayChanges(changes, i, d) ==
  IF i > Len(changes) THEN d
  ELSE ReplayChanges(changes, i + 1,
         [d EXCEPT ![changes[i].key] = changes[i].new_value])

\* _compute takes the cached branch: a result is stored under the key and it
\* is younger than the cache timeout.
CacheHit(node_id, st) ==
  /\ variant = "framework"
  /\ cache_fresh
  /\ HasCachedResult(st.cache[node_id],
                     GenerateCacheKey(node_id, st.last_modified))

\* compute() from "Calculate changes" on: _data is brought to new_data and the
\* changes that did it are returned.
Diff(node_id, st, new_data, order) ==
  [st |-> [st EXCEPT !.data[node_id] = DiffApply(@, new_data),
                     !.key_order[node_id] =
                       KeyOrderAfter(DiffChanges(st.data[node_id], new_data,
                                                 order), 1, @)],
   changes |-> DiffChanges(st.data[node_id], new_data, order)]

\* set_cached_result(cache_key, ComputeResult(changes, cache_key)) at the end
\* of the computing branch.
CacheResult(node_id, cache_key, r) ==
  [st |-> [r.st EXCEPT !.cache[node_id] =
             SetCachedResult(@, cache_key, r.changes,
                             Seen(node_id, r.st.data))],
   changes |-> r.changes]

\* _compute_single_node after compute() has returned r, in a pass started
\* from inside a compute step: the flag of the node goes down, the changes
\* wait for the dispatch loop.
NestedComputed(node_id, hit, r, entries, ctx) ==
  [st |-> [r.st EXCEPT !.invalidated[node_id] = FALSE,
                       !.last_computed = Stamp(@, node_id),
                       !.nested = IF hit THEN @ ELSE Append(@, node_id)],
   entries |-> entries \o LogEntries(ctx.wid, ctx.start, node_id, r.changes)]

\* The finally clause and the dispatch loop of such a pass.
NestedExit(r) == [r.st EXCEPT !.flag = FALSE, !.log = @ \o r.entries]

RECURSIVE Compute(_, _, _, _), FuncWritesApply(_, _, _, _, _),
          NestedSet(_, _, _, _), NestedNotify(_, _, _, _, _),
          NestedRecompute(_, _, _, _), NestedLoop(_, _, _, _, _, _),
          NestedPass(_, _, _, _), NestedNext(_, _, _, _, _),
          CollectionCompute(_, _, _, _)

\* ComputedCollection.compute (src/reactive) and the computing branch of
\* _compute (src/reactive_framework): run the compute function, with the
\* writes it makes, then diff its result against _data.
Compute(node_id, st, order, ctx) ==
  Diff(node_id,
       FuncWritesApply(
         FuncWrites(node_id, st.data, st.key_order[dependencies[node_id][1]]),
         1, st, order, ctx),
       ComputeFunc(node_id, st.data), order)

FuncWritesApply(writes, i, st, order, ctx) ==
  IF i > Len(writes) THEN st
  ELSE FuncWritesApply(writes, i + 1, NestedSet(writes[i], st, order, ctx),
                       order, ctx)

\* Collection.set called from inside a compute function: the thread holds the
\* graph lock, and the whole call runs inside the caller's compute step.
NestedSet(w, st, order, ctx) ==
  LET old_value == st.data[w.coll][w.key]
      s1 == [st EXCEPT !.data[w.coll][w.key] = w.value,
                       !.key_order[w.coll] = KeyOrder(@, w.key, w.value),
                       !.last_modified[w.coll] = Tick(@)]
      s2 == NestedNotify(NotifyTargets(w.coll), 1, s1, order, ctx)
  IN [s2 EXCEPT !.log = @ \o LogEntries(ctx.wid, "own", w.coll,
                   OwnCallbackChanges(Change(w.key, old_value, w.value)))]

NestedNotify(targets, i, st, order, ctx) ==
  IF i > Len(targets) THEN st
  ELSE NestedNotify(targets, i + 1,
                    NestedRecompute(targets[i], st, order, ctx), order, ctx)

\* _compute: the cached branch or the computing branch, which stores its
\* changes under the key generated before the compute function ran.
CollectionCompute(node_id, st, order, ctx) ==
  IF variant = "reactive" THEN Compute(node_id, st, order, ctx)
  ELSE LET cache_key == GenerateCacheKey(node_id, st.last_modified) IN
       IF CacheHit(node_id, st)
       THEN LET cached_result == GetCachedResult(st.cache[node_id], cache_key)
            IN [st |-> [st EXCEPT !.data[node_id] =
                          ReplayChanges(cached_result.changes, 1, @),
                                  !.key_order[node_id] =
                          KeyOrderAfter(cached_result.changes, 1, @)],
                changes |-> cached_result.changes]
       ELSE CacheResult(node_id, cache_key, Compute(node_id, st, order, ctx))

\* recompute_invalidated called while the caller's compute step runs.
NestedRecompute(start, st, order, ctx) ==
  IF RecomputeSuppressed(st.flag) THEN st
  ELSE NestedPass(InvalidateNode(start, st.invalidated), st, order,
                  [ctx EXCEPT !.start = start])

NestedPass(inv, st, order, ctx) ==
  NestedExit(NestedLoop(
    TopologicalSort(CHOOSE o \in Orders(inv.invalidated) : TRUE), 1,
    [st EXCEPT !.invalidated = inv.flags, !.flag = TRUE], <<>>, order, ctx))

\* The compute loop of such a pass; entries are the callback records its
\* dispatch loop appends when the compute loop is over.
NestedLoop(sorted, i, st, entries, order, ctx) ==
  IF i > Len(sorted) THEN [st |-> st, entries |-> entries]
  ELSE LET node_id == sorted[i] IN
       IF ~st.invalidated[node_id] \/ node_id \in ctx.in_progress
       THEN NestedLoop(sorted, i + 1, st, entries, order, ctx)
       ELSE IF compute_func[node_id] = NoFunc
       THEN NestedLoop(sorted, i + 1,
              [st EXCEPT !.invalidated[node_id] = FALSE,
                         !.last_computed = Stamp(@, node_id)],
              entries, order, ctx)
       ELSE NestedNext(sorted, i,
              NestedComputed(node_id, CacheHit(node_id, st),
                CollectionCompute(node_id, st, order,
                  [ctx EXCEPT !.in_progress = @ \cup {node_id}]),
                entries, ctx),
              order, ctx)

NestedNext(sorted, i, r, order, ctx) ==
  NestedLoop(sorted, i + 1, r.st, r.entries, order, ctx)

\* ------------------------------------------------------------- the pass
\* The collections whose lock the compute function of node_id takes while it
\* runs: the source it iterates, the argument collection it reads or writes.
LockSet(node_id) == Range(dependencies[node_id])

\* recompute_invalidated up to the compute loop: take the graph lock, return
\* if a pass is in progress, else raise the flag, invalidate from the
\* starting node and sort what was invalidated.
RecomputeEnter(t) ==
  LET f == frame[t] IN
  /\ pc[t] = "notify_observers"
  /\ f.tidx <= Len(f.targets)
  /\ CanAcquire(graph_lock, t)
  /\ IF RecomputeSuppressed(coordinated_update_in_progress)
     THEN /\ frame' = [frame EXCEPT ![t].tidx = @ + 1]
          /\ UNCHANGED <<invalidated, coordinated_update_in_progress,
                         graph_lock, pc>>
     ELSE LET start == f.targets[f.tidx]
              inv == InvalidateNode(start, invalidated)
          IN \E order \in Orders(inv.invalidated) :
               LET sorted == TopologicalSort(order) IN
               /\ invalidated' = inv.flags
               /\ coordinated_update_in_progress' = TRUE
               /\ graph_lock' = t
               /\ frame' = [frame EXCEPT ![t] =
                    [@ EXCEPT !.start = start,
                              !.invalidated_nodes = inv.invalidated,
                              !.sorted_nodes = sorted, !.idx = 1,
                              !.all_changes = <<>>, !.didx = 1,
                              !.computed = <<>>, !.invoked = <<>>,
                              !.nested = <<>>,
                              !.clean = \A n \in NodeIds : ~invalidated[n]]]
               /\ pc' = [pc EXCEPT ![t] =
                    IF sorted = <<>> THEN "dispatch" ELSE "compute"]
  /\ UNCHANGED <<last_computed, key_order, graph_vars, service_vars, cache_vars, data, computation_in_progress,
                 coll_lock, cb_log, nwrites>>

\* Where the compute loop goes after the node at f.idx.
AfterNode(f) == IF f.idx + 1 > Len(f.sorted_nodes) THEN "dispatch" ELSE "compute"

\* The else branch of _compute's last statement (src/reactive_framework):
\* every change goes to _notify_observers at once, and nothing is returned.
NotifyObservers(node_id, changes, st, order, ctx) ==
  LET s1 == NestedNotify(dependents[node_id], 1, st, order, ctx)
  IN [s1 EXCEPT !.log = @ \o LogEntries(ctx.wid, ctx.start, node_id, changes)]

\* The write and the pass a compute step belongs to, and the nodes being
\* computed while it runs.
Context(f, node_id) ==
  [wid |-> f.wid, start |-> f.start,
   in_progress |-> computation_in_progress \cup {node_id}]

\* The last statement of compute(): the changes are returned to the pass, or
\* handed to the observers and callbacks at once.
Returned(node_id, r, order, ctx) ==
  IF variant = "reactive" \/ SuppressNotifications THEN r
  ELSE [st |-> NotifyObservers(node_id, r.changes, r.st, order, ctx),
        changes |-> <<>>]

\* _compute_single_node after compute() has returned r: the node's flag goes
\* down, and the loop keeps the changes when there are any.
\* _compute_single_node after the compute: "node.invalidated = False".
\* Mutant: the node keeps its flag.
NodeStaysInvalidated(flags, node_id) == flags

NodeComputed(flags, node_id) == [flags EXCEPT ![node_id] = FALSE]

Computed(t, node_id, hit, r) ==
  /\ data' = r.st.data
  /\ key_order' = r.st.key_order
  /\ last_modified' = r.st.last_modified
  /\ cache' = r.st.cache
  /\ invalidated' = NodeComputed(r.st.invalidated, node_id)
  /\ last_computed' = Stamp(r.st.last_computed, node_id)
  /\ coordinated_update_in_progress' = r.st.flag
  /\ cb_log' = cb_log \o r.st.log
  /\ frame' = [frame EXCEPT ![t] =
       [@ EXCEPT !.idx = @ + 1,
                 !.computed = Append(@, node_id),
                 !.invoked = IF hit THEN @ ELSE Append(@, node_id),
                 !.nested = @ \o r.st.nested,
                 !.all_changes = IF r.changes # <<>>
                                 THEN Append(@, <<node_id, r.changes>>)
                                 ELSE @]]
  /\ UNCHANGED cache_fresh

\* One turn of the compute loop: the node is skipped when its flag is down or
\* it is being computed; else _compute_single_node computes it, lowers its
\* flag and returns its changes, which the loop keeps when there are any.
ComputeNode(t) ==
  LET f == frame[t]
      node_id == f.sorted_nodes[f.idx]
  IN
  /\ pc[t] = "compute"
  /\ IF ~invalidated[node_id] \/ node_id \in computation_in_progress
     THEN /\ frame' = [frame EXCEPT ![t].idx = @ + 1]
          /\ UNCHANGED <<data, key_order, cache_vars, invalidated,
                         last_computed, cb_log,
                         coordinated_update_in_progress>>
     ELSE IF compute_func[node_id] = NoFunc
     THEN /\ invalidated' = [invalidated EXCEPT ![node_id] = FALSE]
          /\ last_computed' = Stamp(last_computed, node_id)
          /\ frame' = [frame EXCEPT ![t].idx = @ + 1,
                                    ![t].computed = Append(@, node_id)]
          /\ UNCHANGED <<data, key_order, cache_vars, cb_log,
                         coordinated_update_in_progress>>
     ELSE /\ CacheHit(node_id, Store)
             \/ \A c \in LockSet(node_id) : CanAcquire(coll_lock[c], t)
          /\ \E order \in Orders(Keys) :
               \E r \in {Returned(node_id,
                            CollectionCompute(node_id, Store, order,
                                              Context(f, node_id)),
                            order, Context(f, node_id))} :
                 Computed(t, node_id, CacheHit(node_id, Store), r)
  /\ pc' = [pc EXCEPT ![t] = AfterNode(f)]
  /\ UNCHANGED <<graph_vars, service_vars, computation_in_progress, graph_lock, coll_lock,
                 nwrites>>

\* recompute_invalidated's "finally: self._coordinated_update_in_progress =
\* False", run when the pass ends and when an exception leaves it.
\* Mutant: the flag stays as the pass had it.
FlagKept(flag) == flag

FlagReset(flag) == FALSE

\* The flags after a compute function has raised: _compute_single_node's
\* "node.invalidated = False" is skipped, and so is the rest of the loop.
\* Mutant: the flag of the failing node is lowered all the same.
FlagsLowered(flags, node_id) == [flags EXCEPT ![node_id] = FALSE]

FlagsAfterRaise(flags, node_id) == flags

\* The compute function of the node at f.idx raises.  The finally clauses
\* take the node out of _computation_in_progress and lower the flag; the
\* exception leaves recompute_invalidated and the write that called it, which
\* releases the locks on its way.
ComputeRaise(t) ==
  LET f == frame[t]
      node_id == f.sorted_nodes[f.idx]
  IN
  /\ pc[t] = "compute"
  /\ invalidated[node_id]
  /\ node_id \notin computation_in_progress
  /\ compute_func[node_id] # NoFunc
  /\ ~CacheHit(node_id, Store)
  /\ \A c \in LockSet(node_id) : CanAcquire(coll_lock[c], t)
  /\ invalidated' = FlagsAfterRaise(invalidated, node_id)
  /\ coordinated_update_in_progress' =
       FlagReset(coordinated_update_in_progress)
  /\ graph_lock' = NoThread
  /\ coll_lock' = [coll_lock EXCEPT ![f.coll] = NoThread]
  /\ pc' = [pc EXCEPT ![t] = "idle"]
  /\ frame' = [frame EXCEPT ![t] = IdleFrame]
  /\ UNCHANGED <<last_computed, key_order, graph_vars, service_vars, cache_vars, data, computation_in_progress,
                 cb_log, nwrites>>

\* The writes the callback registered on node_id makes when it receives the
\* change: the new value, stored under the change's key in the collection the
\* callback writes to.
CallbackWrites(node_id, change) ==
  IF change_callbacks[node_id] = NoFunc \/ change.new_value = NoValue
  THEN <<>>
  ELSE <<[coll |-> change_callbacks[node_id], key |-> change.key,
          value |-> change.new_value]>>

\* notify_callbacks / _notify_callbacks_only for the changes of one node, one
\* after the other: the callback records the change and makes its writes, each
\* a whole Collection.set that runs while the pass is still inside its try
\* block.
RECURSIVE DispatchChanges(_, _, _, _, _, _)
DispatchChanges(node_id, changes, i, st, order, ctx) ==
  IF i > Len(changes) THEN st
  ELSE DispatchChanges(node_id, changes, i + 1,
         FuncWritesApply(CallbackWrites(node_id, changes[i]), 1,
           [st EXCEPT !.log = @ \o LogEntries(ctx.wid, ctx.start, node_id,
                                              <<changes[i]>>)],
           order, ctx),
         order, ctx)

\* The collections the callbacks of node_id write to on these changes.
CallbackLockSet(node_id, changes) ==
  {change_callbacks[node_id] : i \in {j \in 1..Len(changes) :
                                        CallbackWrites(node_id, changes[j]) # <<>>}}

\* What a turn of the dispatch loop leaves behind.
Dispatched(t, st) ==
  /\ data' = st.data
  /\ key_order' = st.key_order
  /\ last_modified' = st.last_modified
  /\ cache' = st.cache
  /\ invalidated' = st.invalidated
  /\ last_computed' = st.last_computed
  /\ coordinated_update_in_progress' = st.flag
  /\ cb_log' = cb_log \o st.log
  /\ frame' = [frame EXCEPT ![t].didx = @ + 1, ![t].nested = @ \o st.nested]

\* One turn of the dispatch loop: the callbacks of one node receive the
\* changes its computation returned, in the order they were found.  Only
\* derived collections have callbacks that write in the graphs under test.
NotifyCallbacks(t) ==
  LET f == frame[t] IN
  /\ pc[t] = "dispatch"
  /\ f.didx <= Len(f.all_changes)
  /\ \A c \in CallbackLockSet(f.all_changes[f.didx][1], f.all_changes[f.didx][2]) :
       CanAcquire(coll_lock[c], t)
  /\ \E order \in Orders(Keys) :
       Dispatched(t,
         DispatchChanges(f.all_changes[f.didx][1], f.all_changes[f.didx][2], 1,
           Store, order,
           [wid |-> f.wid, start |-> f.start,
            in_progress |-> computation_in_progress]))
  /\ ready' = ready \o OnChangeTasks(f.all_changes[f.didx][1],
                                      f.all_changes[f.didx][2])
  /\ dispatched' =
       [i \in InstanceIds |->
          IF i \in Range(on_change[f.all_changes[f.didx][1]])
          THEN dispatched[i] \o [j \in 1..Len(f.all_changes[f.didx][2]) |->
                                   UpdateData(f.all_changes[f.didx][2][j])]
          ELSE dispatched[i]]
  /\ UNCHANGED <<graph_vars, manager_vars, queue, putters, response,
                 cache_fresh, computation_in_progress,
                 graph_lock, coll_lock, pc, nwrites>>

\* The end of recompute_invalidated: the flag goes down, the graph lock is
\* released, and the write goes on to its next observer.
RecomputeExit(t) ==
  LET f == frame[t] IN
  /\ pc[t] = "dispatch"
  /\ f.didx > Len(f.all_changes)
  /\ coordinated_update_in_progress' =
       FlagReset(coordinated_update_in_progress)
  /\ graph_lock' = NoThread
  /\ frame' = [frame EXCEPT ![t].tidx = @ + 1]
  /\ pc' = [pc EXCEPT ![t] = "notify_observers"]
  /\ UNCHANGED <<last_computed, key_order, graph_vars, service_vars, cache_vars, data, invalidated,
                 computation_in_progress, coll_lock, cb_log, nwrites>>

\* The end of the write: the written collection's own callbacks receive the
\* change, the collection's lock is released, the call returns.
Return(t) ==
  LET f == frame[t] IN
  /\ pc[t] = "notify_observers"
  /\ f.tidx > Len(f.targets)
  /\ cb_log' = cb_log \o LogEntries(f.wid, "own", f.coll,
                                    OwnCallbackChanges(f.change))
  /\ coll_lock' = [coll_lock EXCEPT ![f.coll] = NoThread]
  /\ pc' = [pc EXCEPT ![t] = "idle"]
  /\ frame' = [frame EXCEPT ![t] = IdleFrame]
  /\ UNCHANGED <<last_computed, key_order, graph_vars, service_vars, cache_vars, data, invalidated,
                 computation_in_progress, coordinated_update_in_progress,
                 graph_lock, nwrites>>

\* A stored result grows older than _cache_timeout (60 seconds counted from
\* ComputeResult's default computed_at): from then on no lookup is a hit.
CacheTimeout ==
  /\ variant = "framework"
  /\ cache_fresh
  /\ cache_fresh' = FALSE
  /\ UNCHANGED <<last_computed, key_order, graph_vars, service_vars, last_modified, cache, invalidated, data,
                 computation_in_progress, coordinated_update_in_progress,
                 graph_lock, coll_lock, pc, frame, cb_log, nwrites>>

Next ==
  \/ \E t \in Threads, c \in NodeIds, key \in Keys, value \in BaseValues :
       Set(t, c, key, value)
  \/ \E t \in Threads, c \in NodeIds, key \in Keys : Delete(t, c, key)
  \/ \E t \in Threads : RecomputeEnter(t)
  \/ \E t \in Threads : ComputeNode(t)
  \/ \E t \in Threads : ComputeRaise(t)
  \/ \E t \in Threads : NotifyCallbacks(t)
  \/ \E t \in Threads : RecomputeExit(t)
  \/ \E t \in Threads : Return(t)
  \/ CacheTimeout

Spec == Init /\ [][Next]_vars

\* The same program with only the engine of src/reactive.
InitReactive ==
  /\ variant = "reactive"
  /\ \E g \in Graphs : InitGraph(g)
  /\ InitState

NextReactive ==
  \/ \E t \in Threads, c \in NodeIds, key \in Keys, value \in BaseValues :
       Set(t, c, key, value)
  \/ \E t \in Threads, c \in NodeIds, key \in Keys : Delete(t, c, key)
  \/ \E t \in Threads : RecomputeEnter(t)
  \/ \E t \in Threads : ComputeNode(t)
  \/ \E t \in Threads : ComputeRaise(t)
  \/ \E t \in Threads : NotifyCallbacks(t)
  \/ \E t \in Threads : RecomputeExit(t)
  \/ \E t \in Threads : Return(t)

SpecReactive == InitReactive /\ [][NextReactive]_vars

\* The program built over the graph whose compute function writes: a step
\* that can be taken is taken, for the interpreter goes on running a thread
\* that is not waiting for a lock.
InitWriter ==
  /\ variant \in Variants
  /\ InitGraph(WriterGraph)
  /\ InitState

SpecWriter == InitWriter /\ [][Next]_vars /\ WF_vars(Next)

\* A = R.map(PlusArg, L): the compute function of A reads its source R and
\* the collection L its mapper was constructed with.  In
\* src/reactive_framework the edge to L is added with add_dependency(A, L).
ArgGraph ==
  [nodes |-> {"R", "L", "A"},
   dependencies |-> [NoDeps EXCEPT !["A"] = <<"R", "L">>],
   dependents |-> [NoDeps EXCEPT !["R"] = <<"A">>, !["L"] = <<"A">>],
   compute_func |-> [NoFuncs EXCEPT !["A"] = "PlusArg"],
   change_callbacks |-> NoFuncs]

\* The program of src/reactive_framework built over that graph, its two
\* threads writing; a thread that is not waiting for a lock goes on running.
InitLocks ==
  /\ variant = "framework"
  /\ InitGraph(ArgGraph)
  /\ InitState

SpecLocks == InitLocks /\ [][Next]_vars /\ WF_vars(Next)

\* ------------------------------------------------------ building the graph
\* The collections the building calls are made with.
BuildIds == {"R", "A", "B"}

\* "if x not in lst: lst.append(x)".
\* Mutant: the entry is appended without the membership test.
AppendAlways(lst, x) == Append(lst, x)

AppendIfAbsent(lst, x) == IF x \notin Range(lst) THEN Append(lst, x) ELSE lst

\* "if x in lst: lst.remove(x)": the first occurrence goes.
RemoveIfPresent(lst, x) ==
  IF x \in Range(lst)
  THEN LET i == CHOOSE j \in 1..Len(lst) :
                  lst[j] = x /\ \A k \in 1..(j - 1) : lst[k] # x
       IN SubSeq(lst, 1, i - 1) \o SubSeq(lst, i + 1, Len(lst))
  ELSE lst

\* ComputeGraph.add_node: a repeated id is ignored.
AddNode(c) ==
  /\ nodes' = nodes \cup {c}
  /\ graph_call' = IF c \notin nodes THEN "add_node" ELSE graph_call
  /\ UNCHANGED <<map_result, last_computed, key_order, service_vars, variant, dependencies, dependents, compute_func,
                 change_callbacks, cache_vars, invalidated, data,
                 computation_in_progress, coordinated_update_in_progress,
                 graph_lock, coll_lock, pc, frame, cb_log, nwrites>>

\* ComputeGraph.add_dependency: both nodes are looked up (KeyError when one is
\* not registered), then each list gets the other's name unless it has it.
AddDependency(dependent, dependency) ==
  /\ dependent \in nodes /\ dependency \in nodes
  /\ dependents' = [dependents EXCEPT
                      ![dependency] = AppendIfAbsent(@, dependent)]
  /\ dependencies' = [dependencies EXCEPT
                        ![dependent] = AppendIfAbsent(@, dependency)]
  /\ graph_call' = IF dependency \notin Range(dependencies[dependent])
                    THEN "add_dependency" ELSE graph_call
  /\ UNCHANGED <<map_result, last_computed, key_order, service_vars, variant, nodes, compute_func, change_callbacks, cache_vars,
                 invalidated, data, computation_in_progress,
                 coordinated_update_in_progress, graph_lock, coll_lock, pc,
                 frame, cb_log, nwrites>>

\* ComputeGraph.remove_dependency: each list loses the other's name if it has
\* it.
RemoveDependency(dependent, dependency) ==
  /\ dependent \in nodes /\ dependency \in nodes
  /\ dependents' = [dependents EXCEPT
                      ![dependency] = RemoveIfPresent(@, dependent)]
  /\ dependencies' = [dependencies EXCEPT
                        ![dependent] = RemoveIfPresent(@, dependency)]
  /\ graph_call' = IF dependency \in Range(dependencies[dependent])
                    THEN "remove_dependency" ELSE graph_call
  /\ UNCHANGED <<map_result, last_computed, key_order, service_vars, variant, nodes, compute_func, change_callbacks, cache_vars,
                 invalidated, data, computation_in_progress,
                 coordinated_update_in_progress, graph_lock, coll_lock, pc,
                 frame, cb_log, nwrites>>

\* The program while it builds its graph: a new ComputeGraph and any sequence
\* of building calls.
InitBuild ==
  /\ variant \in Variants
  /\ nodes = {}
  /\ dependencies = NoDeps
  /\ dependents = NoDeps
  /\ compute_func = NoFuncs
  /\ change_callbacks = NoFuncs
  /\ graph_call = NoCall
  /\ InitState

NextBuild ==
  \/ \E c \in BuildIds : AddNode(c)
  \/ \E dependent \in BuildIds, dependency \in BuildIds :
       AddDependency(dependent, dependency)
  \/ \E dependent \in BuildIds, dependency \in BuildIds :
       RemoveDependency(dependent, dependency)

SpecBuild == InitBuild /\ [][NextBuild]_vars

\* ------------------------------------------------- mapping while running
\* The map calls the program makes, as (source, name of the result, mapper,
\* collections among the args): A = R.map(Inc); B = A.map(Double);
\* C = R.map(Inc2).  The name of a result is told by its source, its mapper
\* and its args.
MapCalls ==
  {<<"R", "A", "Inc", <<>>>>, <<"A", "B", "Double", <<>>>>,
   <<"R", "C", "Inc2", <<>>>>}

\* add_dependency(result, dependency) for the source and then for each
\* collection among the args, as it leaves the list of result's dependencies.
RECURSIVE AddDependencies(_, _, _)
AddDependencies(lst, deps, i) ==
  IF i > Len(deps) THEN lst
  ELSE AddDependencies(AppendIfAbsent(lst, deps[i]), deps, i + 1)

\* ComputedCollection.map / create_mapped_collection, called between the
\* writes: a new object is constructed empty; add_node registers it unless
\* the graph has a node of its name; the edges to the source and to the
\* collections among the args are added by name, each unless it is there; the
\* compute function is set on the new object, which is returned.  Nothing is
\* computed.
Map(source, result, mapper, args) ==
  /\ \A t \in Threads : pc[t] = "idle"
  /\ source \in nodes
  /\ Range(args) \subseteq nodes
  /\ nodes' = nodes \cup {result}
  /\ IF result \notin nodes
     THEN /\ data' = [data EXCEPT ![result] = EmptyData]
          /\ key_order' = [key_order EXCEPT ![result] = <<>>]
          /\ compute_func' = [compute_func EXCEPT ![result] = mapper]
     ELSE UNCHANGED <<data, key_order, compute_func>>
  /\ map_result' = [map_result EXCEPT
                      ![result] = [returned |-> TRUE,
                                   registered |-> result \notin nodes,
                                   data |-> EmptyData]]
  /\ dependents' = [n \in NodeIds |->
                      IF n \in {source} \cup Range(args)
                      THEN AppendIfAbsent(dependents[n], result)
                      ELSE dependents[n]]
  /\ dependencies' = [dependencies EXCEPT
                        ![result] = AddDependencies(@, <<source>> \o args, 1)]
  /\ graph_call' = "map"
  /\ UNCHANGED <<last_computed, service_vars, variant, change_callbacks, cache_vars,
                 invalidated, computation_in_progress,
                 coordinated_update_in_progress, graph_lock, coll_lock, pc,
                 frame, cb_log, nwrites>>

\* The contents of the collection the last map() call for this name returned.
ResultItems(c) ==
  IF map_result[c].registered THEN data[c] ELSE map_result[c].data

\* The program with its base collection R, mapping while it writes.
InitMap ==
  /\ variant \in Variants
  /\ nodes = {"R"}
  /\ dependencies = NoDeps
  /\ dependents = NoDeps
  /\ compute_func = NoFuncs
  /\ change_callbacks = NoFuncs
  /\ graph_call = NoCall
  /\ InitState

NextMap ==
  \/ \E c \in NodeIds, key \in Keys, value \in BaseValues :
       Set("t1", c, key, value)
  \/ \E c \in NodeIds, key \in Keys : Delete("t1", c, key)
  \/ RecomputeEnter("t1")
  \/ ComputeNode("t1")
  \/ NotifyCallbacks("t1")
  \/ RecomputeExit("t1")
  \/ Return("t1")
  \/ \E call \in MapCalls : Map(call[1], call[2], call[3], call[4])

SpecMap == InitMap /\ [][NextMap]_vars

\* A map call with a collection among its args: A = R.map(PlusArg, L).
ArgCalls == {<<"R", "A", "PlusArg", <<"L">>>>}

\* The program of src/reactive with its base collections R and L, mapping
\* with an argument collection while it writes; a compute function may raise.
InitArgs ==
  /\ variant = "reactive"
  /\ nodes = {"R", "L"}
  /\ dependencies = NoDeps
  /\ dependents = NoDeps
  /\ compute_func = NoFuncs
  /\ change_callbacks = NoFuncs
  /\ graph_call = NoCall
  /\ InitState

NextArgs ==
  \/ \E c \in NodeIds, key \in Keys, value \in BaseValues :
       Set("t1", c, key, value)
  \/ \E c \in NodeIds, key \in Keys : Delete("t1", c, key)
  \/ RecomputeEnter("t1")
  \/ ComputeNode("t1")
  \/ ComputeRaise("t1")
  \/ NotifyCallbacks("t1")
  \/ RecomputeExit("t1")
  \/ Return("t1")
  \/ \E call \in ArgCalls : Map(call[1], call[2], call[3], call[4])

SpecArgs == InitArgs /\ [][NextArgs]_vars

\* -------------------------------------------------------------- the service
\* The JSON bodies create_stream is called with: the items of the params dict
\* in the order the body gives them.  The first two are the same dict.
ParamKeys == <<"x", "y">>

ParamInputs ==
  {<<<<"x", 1>>, <<"y", 1>>>>, <<<<"y", 1>>, <<"x", 1>>>>,
   <<<<"x", 2>>, <<"y", 1>>>>}

ResourceName == "resource"

\* The value a params dict holds under a key.
ParamValue(params, k) ==
  params[CHOOSE j \in 1..Len(params) : params[j][1] = k][2]

\* The items as the body gave them.
\* Mutant: the items are not sorted before they are formatted.
UnsortedItems(params) == params

\* dict(sorted(params.items())): the items in the order of their keys.
SortedItems(params) ==
  LET ks == SelectSeq(ParamKeys,
                      LAMBDA k : \E j \in 1..Len(params) : params[j][1] = k)
  IN [i \in 1..Len(ks) |-> <<ks[i], ParamValue(params, ks[i])>>]

\* _get_param_hash: f"{resource_name}:{str(sorted_params)}"; the text lists
\* the items in their order, so it is told by the name and the item list.
GetParamHash(resource_name, params) == <<resource_name, SortedItems(params)>>

\* A dict with one more key, and with one key less.
DictSet(dict, k, v) ==
  [j \in DOMAIN dict \cup {k} |-> IF j = k THEN v ELSE dict[j]]

DictDel(dict, k) == [j \in DOMAIN dict \ {k} |-> dict[j]]

\* find_existing_instance: the id stored under the hash if that instance
\* still exists, else None.  The two-level dict is keyed here by the hash
\* alone, which contains the resource name.
FindExistingInstance(resource_name, params) ==
  LET param_hash == GetParamHash(resource_name, params) IN
  IF param_hash \in DOMAIN instances_by_params
     /\ instances_by_params[param_hash] \in DOMAIN instances
  THEN instances_by_params[param_hash]
  ELSE NoInstance

\* resource.instantiate(params): the collection built for the params, the
\* leaf the stream shows.
Instantiate(params) == IF ParamValue(params, "x") = 1 THEN "A" ELSE "B"

\* The event loop runs a handler or a task only between the synchronous calls
\* of the writers, which run on the loop too.
LoopIdle == \A t \in Threads : pc[t] = "idle"

engine_vars == <<graph_vars, cache_vars, invalidated, last_computed, data,
                 key_order,
                 computation_in_progress, coordinated_update_in_progress,
                 graph_lock, coll_lock, pc, frame, cb_log, nwrites>>

\* POST /v1/streams/<resource_name>: an instance with these params is reused,
\* else the collection is built and create_instance registers it under a new
\* uuid4.
CreateStream(params) ==
  LET existing_id == FindExistingInstance(ResourceName, params)
      instance_id == uuid + 1
  IN
  /\ LoopIdle
  /\ IF existing_id # NoInstance
     THEN /\ response' = [params |-> params, existing |-> existing_id,
                          instance_id |-> existing_id, reused |-> TRUE]
          /\ UNCHANGED manager_vars
     ELSE /\ uuid < MaxInstances
          /\ uuid' = instance_id
          /\ instances' = DictSet(instances, instance_id,
               [resource_name |-> ResourceName, params |-> params])
          /\ collections' = DictSet(collections, instance_id,
                                    Instantiate(params))
          /\ subscribers' = DictSet(subscribers, instance_id, {})
          /\ instances_by_params' =
               DictSet(instances_by_params,
                       GetParamHash(ResourceName, params), instance_id)
          /\ response' = [params |-> params, existing |-> NoInstance,
                          instance_id |-> instance_id, reused |-> FALSE]
          /\ UNCHANGED <<on_change, destroyed>>
  /\ UNCHANGED <<engine_vars, queue, putters, ready, dispatched>>

\* The subscribers of an instance in the order a for loop over the set meets
\* them: the order of the references' hashes, taken here as that of the names.
IterOrder(S) == SelectSeq(<<"q1", "q2">>, LAMBDA q : q \in S)

\* ResourceManager.subscribe(instance_id, queue) with a new queue of the given
\* maxsize: the weak reference joins the set, the snapshot is put on the
\* queue, on_change is stored under the instance id in the collection's
\* change_callbacks.
Subscribe(instance_id, q, maxsize) ==
  /\ LoopIdle
  /\ queue[q].state = "none"
  /\ instance_id \in DOMAIN subscribers
  /\ instance_id \in DOMAIN collections
  /\ subscribers' = [subscribers EXCEPT ![instance_id] = @ \cup {q}]
  /\ queue' = [queue EXCEPT ![q] =
       [state |-> "alive", maxsize |-> maxsize,
        put |-> <<InitMessage(data[collections[instance_id]])>>, got |-> 0,
        instance |-> instance_id, since |-> Len(dispatched[instance_id])]]
  /\ on_change' = [on_change EXCEPT ![collections[instance_id]] =
                     AppendIfAbsent(@, instance_id)]
  /\ UNCHANGED <<engine_vars, instances, instances_by_params, collections,
                 uuid, destroyed, putters, ready, dispatched, response>>

\* GET /v1/streams/<instance_id>: get_instance finds the instance, generate()
\* makes an asyncio.Queue() and subscribes it.
GetStream(instance_id, q) ==
  /\ instance_id \in DOMAIN instances
  /\ Subscribe(instance_id, q, 0)

\* The for loop of _notify_subscribers from where the coroutine co stands: a
\* cleared reference is noted in dead_refs, a live queue gets the message, a
\* full one makes put() wait.  It yields the coroutine, the queues and the
\* queue it waits on, if any.
RECURSIVE NotifyLoop(_, _)
NotifyLoop(co, qs) ==
  IF co.todo = <<>> THEN [co |-> co, queue |-> qs, blocked |-> NoQueue]
  ELSE LET ref == Head(co.todo) IN
       IF qs[ref].state # "alive"
       THEN NotifyLoop([co EXCEPT !.todo = Tail(@),
                                  !.dead_refs = @ \cup {ref}], qs)
       ELSE IF Full(qs[ref])
       THEN [co |-> co, queue |-> qs, blocked |-> ref]
       ELSE NotifyLoop([co EXCEPT !.todo = Tail(@)],
                       [qs EXCEPT ![ref].put = Append(@, co.message)])

\* "for ref in self._subscribers[instance_id]" begins.
EnterLoop(co) ==
  [co EXCEPT !.pos = "loop", !.todo = IterOrder(subscribers[co.instance_id]),
             !.size = Cardinality(subscribers[co.instance_id])]

\* The set the loop iterates has changed size since the loop began: the next
\* step of the iterator raises RuntimeError.
SetChanged(co) ==
  /\ co.instance_id \in DOMAIN subscribers
  /\ Cardinality(subscribers[co.instance_id]) # co.size

\* "self._subscribers[instance_id] -= dead_refs".
\* Mutant: the dead references stay in the set.
DeadRefsKept(refs, dead_refs) == refs

DeadRefsRemoved(refs, dead_refs) == refs \ dead_refs

\* The end of _notify_subscribers, and in destroy_instance the
\* "del self._subscribers[instance_id]" that follows the call.
\* Mutant: destroy_instance leaves the subscriber set in the dict.
CleanupKeepsSet(co) ==
  IF co.instance_id \notin DOMAIN subscribers THEN subscribers
  ELSE [subscribers EXCEPT ![co.instance_id] =
          DeadRefsRemoved(@, co.dead_refs)]

Cleanup(co) ==
  IF co.instance_id \notin DOMAIN subscribers THEN subscribers
  ELSE IF co.kind = "destroy" THEN DictDel(subscribers, co.instance_id)
  ELSE [subscribers EXCEPT ![co.instance_id] =
          DeadRefsRemoved(@, co.dead_refs)]

\* What a run of the coroutine leaves behind when the loop has yielded r: the
\* coroutine waits among the putters of the full queue, or it is over.
Settle(r) ==
  /\ queue' = r.queue
  /\ IF r.blocked # NoQueue
     THEN /\ putters' = [putters EXCEPT ![r.blocked] = Append(@, r.co)]
          /\ UNCHANGED subscribers
     ELSE /\ subscribers' = Cleanup(r.co)
          /\ UNCHANGED putters

\* The ready queue is first in, first out.
\* Mutant: the loop runs the task created last.
LastTask(tasks) == Len(tasks)

NextTask(tasks) == 1

\* The event loop runs the next ready coroutine until it waits or ends.  A
\* new task returns at once when the instance has no subscriber set; one
\* woken inside put() checks the queue again, puts, and steps the iterator.
RunTask ==
  LET co == ready[NextTask(ready)] IN
  /\ LoopIdle
  /\ ready # <<>>
  /\ ready' = [j \in 1..(Len(ready) - 1) |->
                 IF j < NextTask(ready) THEN ready[j] ELSE ready[j + 1]]
  /\ IF co.pos = "start"
     THEN IF co.instance_id \notin DOMAIN subscribers
          THEN UNCHANGED <<queue, putters, subscribers>>
          ELSE Settle(NotifyLoop(EnterLoop(co), queue))
     ELSE IF Full(queue[Head(co.todo)])
     THEN /\ putters' = [putters EXCEPT ![Head(co.todo)] = Append(@, co)]
          /\ UNCHANGED <<queue, subscribers>>
     ELSE IF SetChanged(co)
     THEN /\ queue' = [queue EXCEPT ![Head(co.todo)].put =
                         Append(@, co.message)]
          /\ UNCHANGED <<putters, subscribers>>
     ELSE Settle(NotifyLoop(co, queue))
  /\ UNCHANGED <<engine_vars, instances, instances_by_params, collections,
                 uuid, destroyed, on_change, dispatched, response>>

\* generate(): "message = await queue.get()".  Taking a message wakes the
\* first coroutine waiting in put().
QueueGet(q) ==
  /\ LoopIdle
  /\ queue[q].state = "alive"
  /\ QSize(queue[q]) > 0
  /\ queue' = [queue EXCEPT ![q].got = @ + 1]
  /\ IF putters[q] # <<>>
     THEN /\ putters' = [putters EXCEPT ![q] = Tail(@)]
          /\ ready' = Append(ready, Head(putters[q]))
     ELSE UNCHANGED <<putters, ready>>
  /\ UNCHANGED <<engine_vars, manager_vars, dispatched, response>>

\* The client goes away: generate() is closed and its queue, which nothing
\* else holds, is reclaimed; the weak reference in the subscriber set is
\* cleared.  A coroutine waiting in put() holds the queue.
QueueDies(q) ==
  /\ LoopIdle
  /\ queue[q].state = "alive"
  /\ putters[q] = <<>>
  /\ \A j \in 1..Len(ready) : ready[j].pos = "loop" => Head(ready[j].todo) # q
  /\ queue' = [queue EXCEPT ![q].state = "cleared"]
  /\ UNCHANGED <<engine_vars, manager_vars, putters, ready, dispatched,
                 response>>

\* The callback of the weak reference, _remove_subscriber: when it runs after
\* the reference was cleared is up to the interpreter.
RemoveSubscriber(q) ==
  /\ LoopIdle
  /\ queue[q].state = "cleared"
  /\ queue' = [queue EXCEPT ![q].state = "dead"]
  /\ subscribers' =
       IF queue[q].instance \in DOMAIN subscribers
       THEN [subscribers EXCEPT ![queue[q].instance] = @ \ {q}]
       ELSE subscribers
  /\ UNCHANGED <<engine_vars, instances, instances_by_params, collections,
                 uuid, destroyed, on_change, putters, ready, dispatched, response>>

\* "del self._instances[instance_id]".
\* Mutant: the instance stays in the dict.
KeepInstance(instance_id) == instances

DelInstance(instance_id) == DictDel(instances, instance_id)

\* "del self._instances_by_params[resource_name][param_hash]", the hash
\* formatted from the instance's own name and params.
\* Mutant: the index keeps the entry.
KeepParamHash(instance_id) == instances_by_params

DelParamHash(instance_id) ==
  DictDel(instances_by_params,
          GetParamHash(instances[instance_id].resource_name,
                       instances[instance_id].params))

\* get_instance: the instance of this id, None when there is none; the
\* Optional is given as the set of the instances returned, none or one.
GetInstance(instance_id) ==
  IF instance_id \in DOMAIN instances THEN {instances[instance_id]} ELSE {}

\* DELETE /v1/streams/<instance_id>, destroy_instance: the instance leaves
\* the dicts, its subscribers are sent the close message, the subscriber set
\* is deleted.
DestroyInstance(instance_id) ==
  /\ LoopIdle
  /\ instance_id \in DOMAIN instances
  /\ instances' = DelInstance(instance_id)
  /\ destroyed' = destroyed \cup
                    {[instance_id |-> instance_id,
                      resource_name |-> instances[instance_id].resource_name,
                      params |-> instances[instance_id].params]}
  /\ instances_by_params' = DelParamHash(instance_id)
  /\ collections' = DictDel(collections, instance_id)
  /\ IF instance_id \in DOMAIN subscribers
     THEN Settle(NotifyLoop(
            EnterLoop(Coroutine("destroy", instance_id, CloseMessage)), queue))
     ELSE UNCHANGED <<queue, putters, subscribers>>
  /\ UNCHANGED <<engine_vars, uuid, on_change, ready, dispatched, response>>

\* The service of src/reactive/classic over the chain graph, its writers on
\* the event loop: one synchronous write at a time.
FirstParams == <<<<"x", 1>>, <<"y", 1>>>>

\* The start is the service after its first create_stream call, which made
\* instance 1 for FirstParams.
InitService ==
  /\ variant = "reactive"
  /\ InitGraph(ChainGraph)
  /\ InitEngine
  /\ InitStreams
  /\ uuid = 1
  /\ destroyed = {}
  /\ instances = DictSet(<<>>, 1, [resource_name |-> ResourceName,
                                    params |-> FirstParams])
  /\ collections = DictSet(<<>>, 1, Instantiate(FirstParams))
  /\ subscribers = DictSet(<<>>, 1, {})
  /\ instances_by_params =
       DictSet(<<>>, GetParamHash(ResourceName, FirstParams), 1)
  /\ response = [params |-> FirstParams, existing |-> NoInstance,
                 instance_id |-> 1, reused |-> FALSE]

EngineStep ==
  \/ \E c \in NodeIds, key \in Keys, value \in BaseValues :
       Set("t1", c, key, value)
  \/ \E c \in NodeIds, key \in Keys : Delete("t1", c, key)
  \/ RecomputeEnter("t1")
  \/ ComputeNode("t1")
  \/ NotifyCallbacks("t1")
  \/ RecomputeExit("t1")
  \/ Return("t1")

NextService ==
  \/ EngineStep
  \/ \E instance_id \in InstanceIds, q \in Queues : GetStream(instance_id, q)
  \/ RunTask
  \/ \E q \in Queues : QueueDies(q)
  \/ \E q \in Queues : RemoveSubscriber(q)
  \/ \E instance_id \in InstanceIds : DestroyInstance(instance_id)

SpecService == InitService /\ [][NextService]_vars

\* The same service over the graph whose leaf comes to hold the value 0.
InitZero ==
  /\ variant = "reactive"
  /\ InitGraph(ZeroGraph)
  /\ InitEngine
  /\ InitStreams
  /\ uuid = 1
  /\ destroyed = {}
  /\ instances = DictSet(<<>>, 1, [resource_name |-> ResourceName,
                                    params |-> FirstParams])
  /\ collections = DictSet(<<>>, 1, Instantiate(FirstParams))
  /\ subscribers = DictSet(<<>>, 1, {})
  /\ instances_by_params =
       DictSet(<<>>, GetParamHash(ResourceName, FirstParams), 1)
  /\ response = [params |-> FirstParams, existing |-> NoInstance,
                 instance_id |-> 1, reused |-> FALSE]

SpecZero == InitZero /\ [][NextService]_vars

\* The service from its construction, its streams created, opened, left and
\* deleted while no writer writes.
InitStreaming ==
  /\ variant = "reactive"
  /\ InitGraph(ChainGraph)
  /\ InitState

NextStreaming ==
  \/ \E params \in ParamInputs : CreateStream(params)
  \/ \E instance_id \in InstanceIds, q \in Queues : GetStream(instance_id, q)
  \/ \E q \in Queues : QueueDies(q)
  \/ \E q \in Queues : RemoveSubscriber(q)
  \/ \E instance_id \in InstanceIds : DestroyInstance(instance_id)

SpecStreaming == InitStreaming /\ [][NextStreaming]_vars

\* The same with the streams' generators taking the messages off their queues.
NextDrain ==
  \/ NextStreaming
  \/ \E q \in Queues : QueueGet(q)

SpecDrain == InitStreaming /\ [][NextDrain]_vars

\* The service with streams whose queues are bounded: subscribe is called
\* with asyncio.Queue(maxsize=QueueSize), and the streams take their messages.
NextBounded ==
  \/ EngineStep
  \/ \E instance_id \in InstanceIds, q \in Queues :
       Subscribe(instance_id, q, QueueSize)
  \/ RunTask
  \/ \E q \in Queues : QueueGet(q)
  \/ \E instance_id \in InstanceIds : DestroyInstance(instance_id)

SpecBounded == InitService /\ [][NextBounded]_vars

\* ================================================================ properties
\* The nodes reachable from the nodes of S over dependents edges, S included.
RECURSIVE Closure(_)
Closure(S) ==
  LET next == S \cup UNION {Range(dependents[n]) : n \in S}
  IN IF next = S THEN S ELSE Closure(next)

TransitiveDependents(c) == Closure({c}) \ {c}

NoDuplicates(s) == \A i, j \in 1..Len(s) : s[i] = s[j] => i = j

OthersIdle(t) == \A u \in Threads \ {t} : pc[u] = "idle"

\* The step in which the write of thread t returns to its caller: the one
\* that ends the walk over the observers.
WriteReturns(t) == pc[t] = "notify_observers" /\ pc'[t] = "idle"

\* C1: when a write to a base collection returns without a compute failure
\* (and no other thread is in the middle of a write), every derived collection
\* that transitively depends on the written collection holds exactly what its
\* compute function returns on the current contents of its dependencies.
C1_DerivedConsistent ==
  [][\A t \in Threads :
       WriteReturns(t) /\ OthersIdle(t) =>
         \A n \in TransitiveDependents(frame[t].coll) :
           data'[n] = ComputeFunc(n, data')]_vars

\* C2: during one recompute_invalidated call no compute function is invoked
\* twice; when the compute loop has ended without a failure every derived
\* node the call invalidated has been invoked exactly once; and a call that
\* found no flag raised invalidated the starting node and all its transitive
\* dependents.
C2_InvokedOnce ==
  \A t \in Threads :
    pc[t] \in {"compute", "dispatch"} =>
      /\ NoDuplicates(frame[t].invoked)
      /\ pc[t] = "dispatch" =>
           \A n \in frame[t].invalidated_nodes \cap DerivedNodes :
             Cardinality({i \in 1..Len(frame[t].invoked) :
                            frame[t].invoked[i] = n}) = 1
      /\ frame[t].clean =>
           frame[t].invalidated_nodes = Closure({frame[t].start})

\* A pass over the diamond has ended its compute loop: C, reachable over A and
\* over B, is among the nodes it invoked.
C2_Witness ==
  \E t \in Threads :
    /\ pc[t] = "dispatch"
    /\ frame[t].clean
    /\ {"A", "B", "C"} \subseteq frame[t].invalidated_nodes
    /\ dependencies["C"] = <<"A", "B">>
    /\ "C" \in Range(frame[t].invoked)

\* C3: the order in which one pass recomputes nodes places every node after
\* each of its dependencies that the pass recomputes too.
C3_DependenciesFirst ==
  \A t \in Threads :
    \A i, j \in 1..Len(frame[t].computed) :
      frame[t].computed[j] \in Range(dependencies[frame[t].computed[i]]) => j < i

\* A pass has recomputed a node with two dependencies and both of them.
C3_Witness ==
  \E t \in Threads :
    \E n \in Range(frame[t].computed) :
      /\ Len(dependencies[n]) = 2
      /\ Range(dependencies[n]) \subseteq Range(frame[t].computed)

\* The callback records of the pass that frame f describes.
PassEntries(f) ==
  SelectSeq(cb_log, LAMBDA e : e.wid = f.wid /\ e.start = f.start)

C5_NoInterleaving ==
  \A i, j, k \in 1..Len(cb_log) :
    i < j /\ j < k /\ cb_log[i].wid = cb_log[k].wid
      => cb_log[j].wid = cb_log[i].wid

\* C6: no change callback receives a change whose old value equals its new
\* value.
C6_NoEqualChange ==
  \A i \in 1..Len(cb_log) :
    cb_log[i].change.old_value # cb_log[i].change.new_value

\* The step in which a compute function raises in the pass of thread t: only
\* an exception takes a thread out of the compute loop and back to its caller.
RaiseStep(t) == pc[t] = "compute" /\ pc'[t] = "idle"

\* C7: when a compute function raises, the failure reaches the caller of the
\* write (the pass and the write end there), no collection's contents change
\* (the failing node keeps its stored contents, the nodes recomputed earlier
\* keep their new ones), no change is emitted, and the failing node and the
\* flagged nodes after it in the order stay flagged.
C7_FailureSemantics ==
  [][\A t \in Threads :
       RaiseStep(t) =>
         LET f == frame[t] IN
         /\ frame'[t] = IdleFrame
         /\ data' = data
         /\ cb_log' = cb_log
         /\ invalidated'[f.sorted_nodes[f.idx]]
         /\ \A j \in f.idx..Len(f.sorted_nodes) :
              invalidated[f.sorted_nodes[j]] => invalidated'[f.sorted_nodes[j]]]_vars

\* The first write has ended with a failure: a derived node recomputed before
\* the failing one holds contents and is clean, a later one is flagged.
C7_Witness ==
  /\ nwrites = 1
  /\ \A t \in Threads : pc[t] = "idle"
  /\ \E m, n \in DerivedNodes :
       /\ ~invalidated[m] /\ data[m] # EmptyData
       /\ invalidated[n]

\* C8: a node left flagged by a failed pass is recomputed by the next write
\* that reaches it: when a write returns without a failure (no other thread
\* being in a write), no transitive dependent of the written collection is
\* flagged invalidated.
C8_RecoveredAfterFailure ==
  [][\A t \in Threads :
       WriteReturns(t) /\ OthersIdle(t) =>
         \A n \in TransitiveDependents(frame[t].coll) : ~invalidated'[n]]_vars

\* C9: when a compute function raises, the changes of the nodes recomputed
\* before it have been dispatched to the callbacks by the time the failure
\* reaches the caller.
C9_PrefixDispatched ==
  [][\A t \in Threads :
       RaiseStep(t) =>
         \A k \in 1..Len(frame[t].all_changes) :
           \A i \in 1..Len(frame[t].all_changes[k][2]) :
             \E e \in Range(cb_log') :
               /\ e.wid = frame[t].wid
               /\ e.node = frame[t].all_changes[k][1]
               /\ e.change = frame[t].all_changes[k][2][i]]_vars

InducedWrites(f) ==
  {dependencies[n][2] : n \in {m \in Range(f.invoked) : compute_func[m] = "Forward"}}

\* C11: when a compute function has written to a base collection during the
\* pass, then as the triggering write returns (no other thread being in a
\* write) every derived collection that depends on that base collection holds
\* what its compute function returns on the contents after the induced write.
C11_InducedWriteCovered ==
  [][\A t \in Threads :
       WriteReturns(t) /\ OthersIdle(t) =>
         \A c \in InducedWrites(frame[t]) :
           \A n \in TransitiveDependents(c) :
             data'[n] = ComputeFunc(n, data')]_vars

\* The base collections that the callbacks dispatched by the pass of frame f
\* have written.
CallbackWritten(f) ==
  UNION {CallbackLockSet(f.all_changes[i][1], f.all_changes[i][2]) :
           i \in 1..(f.didx - 1)}

\* C12: when a change callback dispatched at the end of the pass has written
\* to a base collection, then as the triggering write returns (no other thread
\* being in a write) every derived collection that depends on that base
\* collection has been recomputed: it holds what its compute function returns
\* on the contents after the callback's write.
C12_CallbackWriteRecomputed ==
  [][\A t \in Threads :
       WriteReturns(t) /\ OthersIdle(t) =>
         \A c \in CallbackWritten(frame[t]) :
           \A n \in TransitiveDependents(c) :
             data'[n] = ComputeFunc(n, data')]_vars

\* The nodes reachable from the nodes of S over dependencies edges, S included;
\* the nodes reachable from node_id over one or more of them.
RECURSIVE Reach(_)
Reach(S) ==
  LET next == S \cup UNION {Range(dependencies[n]) : n \in S}
  IN IF next = S THEN S ELSE Reach(next)

Upstream(node_id) == Reach(Range(dependencies[node_id]))

\* C13: add_dependency rejects an edge that would close a cycle and leaves
\* the lists as they were, so that the graph is acyclic in every reachable
\* state: no node is reachable from itself over dependencies edges.
C13_Acyclic == \A n \in NodeIds : n \notin Upstream(n)

\* C14: in every state the building calls reach, a node lists another in its
\* dependencies exactly when the other lists it in its dependents, and no list
\* holds a name twice.
C14_ListsConsistent ==
  \A a \in NodeIds :
    /\ NoDuplicates(dependencies[a])
    /\ NoDuplicates(dependents[a])
    /\ \A b \in NodeIds :
         b \in Range(dependencies[a]) <=> a \in Range(dependents[b])

\* The last call to change the graph has removed an edge, and the graph keeps
\* two others.
C14_Witness ==
  /\ graph_call = "remove_dependency"
  /\ dependencies["B"] = <<"A">>
  /\ dependents["R"] = <<"A">>
  /\ dependents["A"] = <<"B">>

\* The update events a stream's queue was given for changes dispatched after
\* it subscribed.
UpdatesSince(q) ==
  SelectSeq(queue[q].put,
            LAMBDA m : m.event = "update" /\ m.n > queue[q].since)

\* The live subscribers of an instance.
LiveSubscribers(i) == {q \in subscribers[i] : queue[q].state = "alive"}

\* C16: a subscribe call puts one init event on its queue, as the first
\* event, whose data are all the items the instance's leaf collection holds
\* at the call; the queue is given no other init event afterwards.
C16_InitFirst ==
  [][\A q \in Queues :
       /\ queue[q].state = "none" /\ queue'[q].state = "alive" =>
            /\ Len(queue'[q].put) = 1
            /\ queue'[q].put[1].event = "init"
            /\ queue'[q].put[1].data =
                 {<<k, data[collections[queue'[q].instance]][k]>> :
                    k \in {kk \in Keys :
                             data[collections[queue'[q].instance]][kk] # NoValue}}
       /\ queue[q].state # "none" =>
            /\ Len(queue'[q].put) >= Len(queue[q].put)
            /\ \A k \in 1..Len(queue'[q].put) :
                 IF k <= Len(queue[q].put)
                 THEN queue'[q].put[k].event = queue[q].put[k].event
                 ELSE queue'[q].put[k].event # "init"]_vars

\* A stream has been given a snapshot with an item in it and an update after
\* it.
C16_Witness ==
  \E q \in Queues :
    /\ Len(queue[q].put) >= 2
    /\ queue[q].put[1].event = "init"
    /\ queue[q].put[1].data # {}
    /\ queue[q].put[2].event = "update"

C18_CloseIsLast ==
  [][/\ \A i \in DOMAIN instances :
          i \notin DOMAIN instances' =>
            \A q \in LiveSubscribers(i) :
              /\ queue'[q].put[Len(queue'[q].put)].event = "close"
              /\ Len(queue'[q].put) = Len(queue[q].put) + 1
     /\ \A q \in Queues :
          Len(queue[q].put) > 0
          /\ queue[q].put[Len(queue[q].put)].event = "close"
          => Len(queue'[q].put) = Len(queue[q].put)]_vars

\* The instance was destroyed with a stream open; a write has changed the
\* leaf since, and the task it made has run.
C18_Witness ==
  /\ 1 \notin DOMAIN instances
  /\ ready = <<>>
  /\ \A t \in Threads : pc[t] = "idle"
  /\ nwrites = 2
  /\ Len(dispatched[1]) = 2
  /\ Len(queue["q1"].put) = 3
  /\ queue["q1"].put[2].event = "update"
  /\ queue["q1"].put[3].event = "close"

\* C20: a notification that finds the instance's subscriber set takes the
\* cleared references out of the set and puts its message on the queue of
\* every live subscriber.
C20_DeadRefsEvicted ==
  [][ready # <<>> /\ Len(ready') = Len(ready) - 1
     /\ Head(ready).instance_id \in DOMAIN subscribers =>
       /\ subscribers'[Head(ready).instance_id] =
            LiveSubscribers(Head(ready).instance_id)
       /\ \A q \in LiveSubscribers(Head(ready).instance_id) :
            /\ Len(queue'[q].put) = Len(queue[q].put) + 1
            /\ queue'[q].put[Len(queue'[q].put)].event = "update"
            /\ queue'[q].put[Len(queue'[q].put)].n = Head(ready).message.n]_vars

\* A stream's queue was reclaimed; a notification has taken its reference out
\* of the set before the reference's callback ran, and has given the other
\* stream its update.
C20_Witness ==
  /\ 1 \in DOMAIN subscribers
  /\ queue["q1"].state = "cleared"
  /\ subscribers[1] = {"q2"}
  /\ queue["q2"].state = "alive"
  /\ Len(UpdatesSince("q2")) > Len(UpdatesSince("q1"))

\* Two lists of items are the same params dict.
SameDict(p, q) == Range(p) = Range(q)

\* The instances that exist for a params dict.
InstancesFor(params) ==
  {i \in DOMAIN instances : SameDict(instances[i].params, params)}

\* C15: create_stream answers with the id of the instance that exists for the
\* same params and reused = true; when there is none it answers with an id
\* never given before and reused = false.  So the second of two calls with
\* the same params gets the id of the first, and a call with other params
\* gets another id.
C15_SameParamsSameInstance ==
  [][\A params \in ParamInputs :
       CreateStream(params) =>
         /\ InstancesFor(params) # {} =>
              /\ response'.reused
              /\ response'.instance_id \in InstancesFor(params)
         /\ InstancesFor(params) = {} =>
              /\ ~response'.reused
              /\ response'.instance_id \notin 1..uuid
         /\ \A i \in DOMAIN instances' :
              SameDict(instances'[i].params, params)
              <=> i = response'.instance_id]_vars

\* A call has reused the instance made for the same params given in another
\* order, while an instance with another id exists for other params.
C15_Witness ==
  /\ response.reused
  /\ response.instance_id \in DOMAIN instances
  /\ instances[response.instance_id].params # response.params
  /\ \E i \in DOMAIN instances : i # response.instance_id

\* C19: no coroutine ever waits in put(); a notification that meets a live
\* subscriber whose queue is full leaves that queue as it is and takes the
\* subscriber out of the instance's set.
C19_FullQueueEvicted ==
  [][/\ \A q \in Queues : putters'[q] = <<>>
     /\ ready # <<>> /\ Len(ready') = Len(ready) - 1
        /\ Head(ready).pos = "start"
        /\ Head(ready).instance_id \in DOMAIN subscribers =>
          \A q \in LiveSubscribers(Head(ready).instance_id) :
            Full(queue[q]) =>
              /\ Len(queue'[q].put) = Len(queue[q].put)
              /\ q \notin subscribers'[Head(ready).instance_id]]_vars

\* C21: for every change dispatched to an instance the update event carries
\* the change's key and an inner array that is empty exactly when the change
\* is a deletion (its new value is None) and holds the new value otherwise,
\* whatever the new value is.
C21_UpdateCarriesValue ==
  [][\A t \in Threads :
       pc[t] = "dispatch" =>
         \A i \in InstanceIds :
           \A k \in (Len(dispatched[i]) + 1)..Len(dispatched'[i]) :
             LET change == frame[t].all_changes[frame[t].didx][2]
                             [k - Len(dispatched[i])]
             IN dispatched'[i][k] =
                  <<change.key,
                    IF change.new_value = NoValue THEN <<>>
                    ELSE <<change.new_value>>>>]_vars

\* C22: when the generator of a stream has taken the close event off its
\* queue and sent it to the client, the generator stops: it is not left
\* waiting for a further event.
C22_StopsAfterClose ==
  [][\A q \in Queues :
       /\ queue'[q].got = queue[q].got + 1
       /\ queue[q].put[queue'[q].got].event = "close"
       => queue'[q].state # "alive"]_vars

\* C23: as soon as a map call has constructed its result over a source that
\* holds entries, the result holds the mapper's output for each entry of the
\* source; no write to the source is needed.
C23_MappedAtConstruction ==
  [][\A n \in nodes' \ nodes :
       compute_func'[n] # NoFunc =>
         \A k \in Keys :
           data'[n][k] =
             IF data'[dependencies'[n][1]][k] = NoValue THEN NoValue
             ELSE MapValue(compute_func'[n],
                           data'[dependencies'[n][1]][k], NoValue)]_vars

\* C24: a set(k, v) on a base collection that already holds v under k (the
\* second of two consecutive equal calls) yields no change: by the time it
\* returns, no callback has been handed anything on its account.
C24_SecondSetSilent ==
  [][\A t \in Threads :
       /\ WriteReturns(t)
       /\ frame[t].change.new_value # NoValue
       /\ frame[t].change.old_value = frame[t].change.new_value
       => \A j \in 1..Len(cb_log') : cb_log'[j].wid # frame[t].wid]_vars

\* C25: with B = R.map(Inc).map(Double) and C = R.map(Inc2), Inc2 being the
\* composition v -> Double(Inc(v)), the contents of B equal those of C, key by
\* key, whenever a write or delete on the source R has returned.
C25_ComposedEqual ==
  [][\A t \in Threads :
       /\ WriteReturns(t)
       /\ frame[t].coll = "R"
       /\ {"A", "B", "C"} \subseteq nodes
       => data'["B"] = data'["C"]]_vars

\* C26: when a write has returned (no other thread being in a write), every
\* edge whose dependency is the written collection or one of its transitive
\* dependents has a dependent computed no earlier than the dependency.
C26_LastComputedOrdered ==
  [][\A t \in Threads :
       WriteReturns(t) /\ OthersIdle(t) =>
         \A b \in nodes :
           \A a \in Range(dependencies[b]) \cap Closure({frame[t].coll}) :
             last_computed'[b] >= last_computed'[a]]_vars

\* The nodes a walk over dependents reaches from the nodes of S without going
\* through a node whose flag is up, S included.
RECURSIVE CleanClosure(_)
CleanClosure(S) ==
  LET next == S \cup {n \in UNION {Range(dependents[m]) : m \in S} :
                        ~invalidated[n]}
  IN IF next = S THEN S ELSE CleanClosure(next)

\* The step in which thread t's recompute_invalidated calls invalidate_node.
Invalidates(t) ==
  pc[t] = "notify_observers" /\ pc'[t] \in {"compute", "dispatch"}

\* C27: invalidate(n) called while every node is clean raises the flag of n and
\* of every transitive dependent of n and returns exactly these nodes.  In any
\* state, a node whose flag is already up when the walk reaches it is skipped
\* (the walk does not go on through it) and is not in the returned set, every
\* returned node is flagged, and every other node keeps its flag.
C27_InvalidateExactly ==
  [][\A t \in Threads :
       Invalidates(t) =>
         LET n == frame'[t].start
             returned == frame'[t].invalidated_nodes
         IN /\ (\A m \in NodeIds : ~invalidated[m]) =>
                 /\ returned = Closure({n})
                 /\ \A m \in NodeIds : invalidated'[m] <=> m \in Closure({n})
            /\ returned = IF invalidated[n] THEN {} ELSE CleanClosure({n})
            /\ \A m \in returned : ~invalidated[m] /\ invalidated'[m]
            /\ \A m \in NodeIds \ returned : invalidated'[m] = invalidated[m]]_vars

\* A pass has begun while a transitive dependent of its starting node was
\* still flagged: the walk returned the starting node but not that dependent.
C27_Witness ==
  \E t \in Threads :
    /\ pc[t] = "compute"
    /\ ~frame[t].clean
    /\ frame[t].start \in frame[t].invalidated_nodes
    /\ frame[t].invalidated_nodes # Closure({frame[t].start})

\* C28: the list the topological sort returns for the set of nodes a pass
\* has invalidated holds every node of the set exactly once and no node
\* outside the set.
C28_SortedIsTheSet ==
  [][\A t \in Threads :
       Invalidates(t) =>
         /\ NoDuplicates(frame'[t].sorted_nodes)
         /\ Range(frame'[t].sorted_nodes) = frame'[t].invalidated_nodes]_vars

\* The step in which the pass of thread t invokes a compute function, and the
\* changes the pass keeps from it.
InvokesCompute(t) ==
  pc[t] = "compute" /\ Len(frame'[t].invoked) = Len(frame[t].invoked) + 1

KeptChanges(t) ==
  IF Len(frame'[t].all_changes) > Len(frame[t].all_changes)
  THEN frame'[t].all_changes[Len(frame'[t].all_changes)][2]
  ELSE <<>>

\* The callback records a step has appended for the pass of frame f and the
\* collection node_id.
Appended(f, node_id) ==
  SelectSeq(SubSeq(cb_log', Len(cb_log) + 1, Len(cb_log')),
            LAMBDA e : e.wid = f.wid /\ e.start = f.start /\ e.node = node_id)

\* C29: the changes one pass keeps for one collection have all the deletions
\* first, and after them the insertions and updates in the key order of the
\* mapping the compute function returned (the order in which it met the items
\* of its source); and the dispatch loop hands them to the callbacks in that
\* order.
C29_DeletionsThenKeyOrder ==
  [][\A t \in Threads :
       /\ InvokesCompute(t) =>
            LET changes == KeptChanges(t)
                mapping ==
                  key_order[dependencies[frame[t].sorted_nodes[frame[t].idx]][1]]
            IN \A i, j \in 1..Len(changes) :
                 i < j =>
                   /\ changes[j].new_value = NoValue
                        => changes[i].new_value = NoValue
                   /\ changes[i].new_value # NoValue
                        => IndexOf(mapping, changes[i].key)
                             < IndexOf(mapping, changes[j].key)
       /\ pc[t] = "dispatch" /\ frame'[t].didx = frame[t].didx + 1 =>
            LET node_id == frame[t].all_changes[frame[t].didx][1]
                es == Appended(frame[t], node_id)
            IN /\ Len(es) = Len(frame[t].all_changes[frame[t].didx][2])
               /\ \A k \in 1..Len(es) :
                    es[k].change = frame[t].all_changes[frame[t].didx][2][k]]_vars

\* C30: when a pass invokes the compute function of a derived collection, the
\* changes it keeps are exactly the diff of the collection's old contents
\* against the mapping the function returned: one change per key whose old and
\* new value differ (a deletion for a key only in old, an insertion for a key
\* only in new, an update for a key in both), carrying the old and the new
\* value, and none for a key whose values are equal.
C30_ChangesAreTheDiff ==
  [][\A t \in Threads :
       InvokesCompute(t) =>
         LET node_id == frame[t].sorted_nodes[frame[t].idx]
             old == data[node_id]
             new_data == ComputeFunc(node_id, data')
             changes == KeptChanges(t)
         IN /\ \A k \in Keys :
                 Cardinality({i \in 1..Len(changes) : changes[i].key = k})
                   = IF old[k] # new_data[k] THEN 1 ELSE 0
            /\ \A i \in 1..Len(changes) :
                 /\ changes[i].old_value = old[changes[i].key]
                 /\ changes[i].new_value = new_data[changes[i].key]]_vars

\* A pass has invoked the compute function of a derived collection and kept
\* one change for it, an update from one value to another.
C30_Witness ==
  \E t \in Threads :
    \E i \in 1..Len(frame[t].all_changes) :
      LET node_id == frame[t].all_changes[i][1]
          changes == frame[t].all_changes[i][2]
      IN /\ node_id \in Range(frame[t].invoked)
         /\ Len(changes) = 1
         /\ changes[1].old_value # NoValue
         /\ changes[1].new_value # NoValue
         /\ changes[1].old_value # changes[1].new_value


\* C31: construction by map is idempotent: a repeated map call leaves the
\* graph with one node of the name and no doubled edge, and the collection it
\* returns is the one the graph has registered, showing the contents the
\* engine recomputes.
C31_MapIdempotent ==
  \A c \in nodes :
    map_result[c].returned =>
      /\ NoDuplicates(dependencies[c])
      /\ \A d \in nodes : NoDuplicates(dependents[d])
      /\ ResultItems(c) = data[c]


\* The derived collections that were mapped with collection c among the args.
MappedWithArg(c) ==
  {n \in nodes : \E i \in 2..Len(dependencies[n]) : dependencies[n][i] = c}

\* C32: a collection passed as an argument to map is a dependency of the
\* derived collection: a write to it invalidates the derived collection and
\* recomputes it within that write's coordinated update, as the pass shows
\* when it returns without a failure.
C32_ArgumentRecomputed ==
  [][\A t \in Threads :
       pc[t] = "dispatch" /\ pc'[t] = "notify_observers" =>
         \A n \in MappedWithArg(frame[t].coll) :
           /\ n \in frame[t].invalidated_nodes
           /\ n \in Range(frame[t].invoked)
           /\ ~invalidated'[n]]_vars


\* C33: destroy_instance removes the instance from the registry: afterwards
\* get_instance returns nothing for the id and find_existing_instance returns
\* nothing for the instance's resource name and params; and a later create
\* with the params of a destroyed instance answers with an id other than the
\* destroyed one, a newly minted one unless an instance was made for these
\* params since.
C33_DestroyRemoves ==
  [][/\ \A i \in InstanceIds :
          DestroyInstance(i) =>
            /\ GetInstance(i)' = {}
            /\ \A params \in ParamInputs :
                 params = instances[i].params =>
                   FindExistingInstance(ResourceName, params)' = NoInstance
     /\ \A params \in ParamInputs :
          CreateStream(params) =>
            \A d \in destroyed :
              SameDict(d.params, params) =>
                /\ response'.instance_id # d.instance_id
                /\ response'.instance_id \in DOMAIN instances'
                /\ InstancesFor(params) = {} =>
                     /\ ~response'.reused
                     /\ response'.instance_id \notin 1..uuid]_vars

\* Instance 1 was destroyed and a create with its params, given in another
\* order, has minted instance 2.
C33_Witness ==
  /\ \E d \in destroyed :
       /\ d.instance_id = 1
       /\ SameDict(d.params, response.params)
       /\ d.params # response.params
  /\ ~response.reused
  /\ response.instance_id = 2
  /\ GetInstance(1) = {}
  /\ GetInstance(2) # {}


\* No thread is inside a recompute_invalidated call.
NoPass == \A t \in Threads : pc[t] \notin {"compute", "dispatch"}

\* C34: whenever no recompute_invalidated call is executing, also after a
\* compute function raised, coordinated_update_in_progress is false and
\* computation_in_progress is empty, so that no stale flag suppresses the
\* pass of a later write.
C34_NoStaleFlag ==
  NoPass =>
    /\ ~coordinated_update_in_progress
    /\ computation_in_progress = {}
    /\ ~RecomputeSuppressed(coordinated_update_in_progress)

\* A compute function of src/reactive has raised, leaving a node flagged, and
\* a later write stands before its pass.
C34_Witness ==
  /\ variant = "reactive"
  /\ NoPass
  /\ \E n \in nodes : invalidated[n]
  /\ \E t \in Threads :
       /\ pc[t] = "notify_observers"
       /\ frame[t].tidx <= Len(frame[t].targets)
  /\ ~coordinated_update_in_progress


\* C35: when a coordinated update that started with no node flagged
\* invalidated returns without a compute failure, no node of the graph is
\* flagged invalidated, the starting node included.
C35_CleanAfterPass ==
  [][\A t \in Threads :
       pc[t] = "dispatch" /\ pc'[t] = "notify_observers" /\ frame[t].clean =>
         \A n \in NodeIds : ~invalidated'[n]]_vars

\* A pass of src/reactive that started clean from a base node has returned: it
\* computed the base node and invoked two compute functions, and no flag is up.
C35_Witness ==
  \E t \in Threads :
    /\ variant = "reactive"
    /\ pc[t] = "notify_observers"
    /\ frame[t].tidx > Len(frame[t].targets)
    /\ frame[t].clean
    /\ frame[t].start \in BaseNodes
    /\ frame[t].start \in Range(frame[t].computed)
    /\ Len(frame[t].invoked) >= 2
    /\ \A n \in NodeIds : ~invalidated[n]


\* C36: after any sequence of create and destroy operations the tables of the
\* registry agree: _instances, _collections and _subscribers have the same
\* keys; every entry of the params index leads to a live instance whose own
\* name and params give the entry's hash, and every live instance is indexed,
\* so that no two live instances have the same resource name and params.
C36_TablesAgree ==
  /\ DOMAIN collections = DOMAIN instances
  /\ DOMAIN subscribers = DOMAIN instances
  /\ \A h \in DOMAIN instances_by_params :
       /\ instances_by_params[h] \in DOMAIN instances
       /\ GetParamHash(instances[instances_by_params[h]].resource_name,
                       instances[instances_by_params[h]].params) = h
  /\ \A i \in DOMAIN instances :
       \E h \in DOMAIN instances_by_params : instances_by_params[h] = i
  /\ \A i, j \in DOMAIN instances :
       /\ instances[i].resource_name = instances[j].resource_name
       /\ SameDict(instances[i].params, instances[j].params)
       => i = j

\* An instance was destroyed and an instance for other params lives on, alone
\* in the index, with a stream open on it.
C36_Witness ==
  \E d \in destroyed, i \in DOMAIN instances :
    /\ ~SameDict(d.params, instances[i].params)
    /\ DOMAIN instances = {i}
    /\ DOMAIN instances_by_params =
         {GetParamHash(ResourceName, instances[i].params)}
    /\ subscribers[i] # {}


\* C37: two threads that call set at the same time on two different base
\* collections feeding a common derived collection both return: the lock of
\* the written collection, held while the write notifies, and the graph lock,
\* held while the compute function reads its sources, never leave the two
\* threads waiting for each other, so in the long run no thread is in a write.
C37_BothReturn == <>[](\A t \in Threads : pc[t] = "idle")


\* C38: a write that a second thread makes while the first thread's write is
\* under way is not dropped by the coordinated-update flag: its recompute call
\* is never the one that returns at the raised flag, and when it returns, the
\* first thread's write having returned, every derived collection that
\* transitively depends on the collection it wrote holds what its compute
\* function returns on the current contents of its dependencies.
C38_SecondWriteKept ==
  [][/\ \A t \in Threads :
          ~(/\ pc[t] = "notify_observers" /\ pc'[t] = "notify_observers"
            /\ frame'[t].tidx # frame[t].tidx)
     /\ WriteReturns("t2") /\ OthersIdle("t2") =>
          \A n \in TransitiveDependents(frame["t2"].coll) :
            data'[n] = ComputeFunc(n, data')]_vars


\* The compute step of thread t takes the cached branch of _compute.
ReusesCached(t) ==
  /\ pc[t] = "compute"
  /\ compute_func[frame[t].sorted_nodes[frame[t].idx]] # NoFunc
  /\ Len(frame'[t].computed) = Len(frame[t].computed) + 1
  /\ frame'[t].invoked = frame[t].invoked

\* C39: in the engine with a compute cache, a derived collection reuses a
\* cached compute result only when the contents of none of its dependencies,
\* base or derived, have changed since that result was computed; otherwise it
\* invokes its compute function.
C39_CacheHitOnlyIfUnchanged ==
  [][\A t \in Threads :
       ReusesCached(t) =>
         LET node_id == frame[t].sorted_nodes[frame[t].idx]
             cached_result ==
               GetCachedResult(cache[node_id],
                               GenerateCacheKey(node_id, last_modified))
         IN \A dep_id \in Range(dependencies[node_id]) :
              data[dep_id] = cached_result.seen[dep_id]]_vars


\* The live instances whose leaf collection is node n.
InstancesUsing(n) == {i \in DOMAIN instances : collections[i] = n}

\* C40: after destroy_instance the instance's leaf collection holds no change
\* callback registered for that instance: every callback on a collection is
\* that of a live instance using it, and so a collection never has more change
\* callbacks than live instances that use it.
C40_NoCallbackAfterDestroy ==
  \A n \in NodeIds :
    /\ \A i \in Range(on_change[n]) : i \in InstancesUsing(n)
    /\ Len(on_change[n]) <= Cardinality(InstancesUsing(n))

====
